---- MODULE Spec2Model ----
(***************************************************************************)
(* Model of the mismatch generation scripts: the Open Library publication  *)
(* date generator, the Mix-n-Match generator (run.py), the validator       *)
(* check_mf_formatting and the upload script.                              *)
(*                                                                         *)
(* Python values are modelled as follows.                                  *)
(*   - A date string from the external source is a sequence of tokens      *)
(*     (numbers with their digit count, words, separators).                *)
(*   - A datetime object is a record [year, month, day]; every datetime of *)
(*     the scripts has time of day 00:00:00.                               *)
(*   - An ISO 8601 string "YYYY-MM-DDT00:00:00Z" is the tuple <<y, m, d>>. *)
(*   - Python's None is the empty tuple; a list that may be None is a      *)
(*     record [none, items].                                               *)
(***************************************************************************)
EXTENDS Integers, Sequences, FiniteSets, TLC

VARIABLES
    script,       \* which script or function this behaviour runs
    pc,           \* position in the script
    call,         \* the arguments of the function called
    ret,          \* its return value, once it has returned
    total,        \* number of records of the input
    idx,          \* number of records the loop has finished
    mismatches,   \* the list of rows (mismatches_1 of the generator, acc of run.py)
    bound,        \* find_mismatches: the local ol_earliest_date has been assigned
    row,          \* the record of the last pass
    fetch,        \* the response to the request(s) of the last pass
    pub_date,     \* what get_editions_publication_dates returned in the last pass
    raised,       \* the exception that ended the script, [exc, at]
    csv,          \* the CSV file written, [written, df]
    sent,         \* upload_mismatches.py: the files posted to the import API
    fs,           \* split_mismatch_file.py: the file system, [original, dir, outputs]
    printed       \* upload_mismatches.py: the messages printed, in order

fnVars == <<call, ret>>
runVars == <<total, idx, mismatches, bound, row, fetch, pub_date, raised, csv, sent, fs, printed>>
vars == <<script, pc, call, ret, total, idx, mismatches, bound, row, fetch, pub_date,
          raised, csv, sent, fs, printed>>

None == <<>>
NoneList == [none |-> TRUE, items |-> <<>>]
List(s) == [none |-> FALSE, items |-> s]

NotRaised == [exc |-> "none", at |-> "none"]
NoFile == [written |-> FALSE, df |-> [columns |-> <<>>, rows |-> <<>>]]
NoRequest == [kind |-> "none", status |-> 0, entries |-> <<>>]
NoFiles == [original |-> FALSE, dir |-> "absent", outputs |-> <<>>]

\* The state of the variables of a script run while a function is called on
\* its own.
NoRun ==
    /\ total = 0 /\ idx = 0 /\ mismatches = <<>> /\ bound = FALSE
    /\ row = <<>> /\ fetch = NoRequest /\ pub_date = NoneList
    /\ raised = NotRaised /\ csv = NoFile /\ sent = <<>> /\ fs = NoFiles /\ printed = <<>>

(***************************************************************************)
(* Bounds of the model.                                                    *)
(***************************************************************************)
MaxDates == 4
MaxRows == 2
MaxEditions == 2
MaxRecords == 2
MaxFiles == 2

(***************************************************************************)
(* Date strings.                                                           *)
(***************************************************************************)
Num(w, v) == [t |-> "num", s |-> "", w |-> w, v |-> v]
Word(s) == [t |-> "word", s |-> s, w |-> 0, v |-> 0]
Sep(s) == [t |-> "sep", s |-> s, w |-> 0, v |-> 0]

FullNames == <<"January", "February", "March", "April", "May", "June", "July",
               "August", "September", "October", "November", "December">>
AbbrNames == <<"Jan", "Feb", "Mar", "Apr", "May", "Jun", "Jul",
               "Aug", "Sep", "Oct", "Nov", "Dec">>

\* Index of a name in a table of month names, 0 when it is not there.
MonthIndex(names, s) ==
    IF \E i \in 1..12 : names[i] = s
    THEN CHOOSE i \in 1..12 : names[i] = s
    ELSE 0

IsLeap(y) == (y % 4 = 0 /\ y % 100 # 0) \/ y % 400 = 0

DaysInMonth(y, m) ==
    IF m = 2 THEN (IF IsLeap(y) THEN 29 ELSE 28)
    ELSE IF m \in {4, 6, 9, 11} THEN 30 ELSE 31

\* The list of formats of convert_to_iso_8601, each a sequence of directives
\* and literal separators.
formats == <<
    <<"%Y">>,
    <<"%Y", "-", "%m">>,
    <<"%Y", "-", "%m", "-", "%d">>,
    <<"%B", " ", "%d", ",", " ", "%Y">>,
    <<"%b", " ", "%d", ",", " ", "%Y">>,
    <<"%B", " ", "%d", " ", "%Y">>,
    <<"%b", " ", "%d", " ", "%Y">>,
    <<"%d", " ", "%B", " ", "%Y">>,
    <<"%d", " ", "%b", " ", "%Y">>,
    <<"%B", " ", "%Y">>,
    <<"%b", " ", "%Y">>,
    <<"%Y", " ", "%B">>,
    <<"%Y", " ", "%b">> >>

Directives == {"%Y", "%m", "%d", "%B", "%b"}

\* Does one token match one element of a format (datetime.strptime)?
TokenMatches(tok, dir) ==
    CASE dir = "%Y" -> tok.t = "num" /\ tok.w = 4
      [] dir = "%m" -> tok.t = "num" /\ tok.w \in {1, 2} /\ tok.v \in 1..12
      [] dir = "%d" -> tok.t = "num" /\ tok.w \in {1, 2} /\ tok.v \in 1..31
      [] dir = "%B" -> tok.t = "word" /\ MonthIndex(FullNames, tok.s) # 0
      [] dir = "%b" -> tok.t = "word" /\ MonthIndex(AbbrNames, tok.s) # 0
      [] OTHER -> tok.t = "sep" /\ tok.s = dir

\* The value a directive takes from the string, Default when the format has
\* no such directive.
Field(toks, fmt, dirs, Default) ==
    IF \E i \in 1..Len(fmt) : fmt[i] \in dirs
    THEN LET i == CHOOSE j \in 1..Len(fmt) : fmt[j] \in dirs
         IN  CASE fmt[i] = "%B" -> MonthIndex(FullNames, toks[i].s)
               [] fmt[i] = "%b" -> MonthIndex(AbbrNames, toks[i].s)
               [] OTHER -> toks[i].v
    ELSE Default

\* Strptime with the month of %b read one too high (a table of abbreviations
\* indexed from the wrong base).
StrptimeAbbrShifted(toks, fmt) ==
    IF Len(toks) # Len(fmt) \/ \E i \in 1..Len(fmt) : ~TokenMatches(toks[i], fmt[i])
    THEN None
    ELSE LET y == Field(toks, fmt, {"%Y"}, 1900)
             m0 == Field(toks, fmt, {"%m", "%B", "%b"}, 1)
             m == IF \E i \in 1..Len(fmt) : fmt[i] = "%b" THEN (m0 % 12) + 1 ELSE m0
             d == Field(toks, fmt, {"%d"}, 1)
         IN  IF y < 1 \/ d > DaysInMonth(y, m)
             THEN None
             ELSE [year |-> y, month |-> m, day |-> d]

\* datetime.strptime(date_str, fmt): the datetime, or None for ValueError.
Strptime(toks, fmt) ==
    IF Len(toks) # Len(fmt) \/ \E i \in 1..Len(fmt) : ~TokenMatches(toks[i], fmt[i])
    THEN None
    ELSE LET y == Field(toks, fmt, {"%Y"}, 1900)
             m == Field(toks, fmt, {"%m", "%B", "%b"}, 1)
             d == Field(toks, fmt, {"%d"}, 1)
         IN  IF y < 1 \/ d > DaysInMonth(y, m)
             THEN None
             ELSE [year |-> y, month |-> m, day |-> d]

\* date_obj.strftime("%Y-%m-%dT%H:%M:%SZ")
Strftime(dt) == <<dt.year, dt.month, dt.day>>

\* The loop of convert_to_iso_8601 over formats[i..]: date_obj is overwritten
\* by every format that parses, the loop has no break.
RECURSIVE ConvertLoop(_, _, _)
ConvertLoop(date_str, i, date_obj) ==
    IF i > Len(formats)
    THEN date_obj
    ELSE LET parsed == Strptime(date_str, formats[i])
         IN  ConvertLoop(date_str, i + 1,
                         IF parsed = None THEN date_obj ELSE parsed)

convert_to_iso_8601(date_str) ==
    LET date_obj == ConvertLoop(date_str, 1, None)
    IN  IF date_obj = None THEN None ELSE Strftime(date_obj)

\* datetime.strptime(iso_string, "%Y-%m-%dT%H:%M:%SZ")
iso_8601_to_datetime(iso_string) ==
    [year |-> iso_string[1], month |-> iso_string[2], day |-> iso_string[3]]

(***************************************************************************)
(* find_earliest_date and compare_values.                                  *)
(***************************************************************************)
\* Python's < on two ISO strings of the same width, digit by digit.
IsoLess(a, b) ==
    \/ a[1] < b[1]
    \/ a[1] = b[1] /\ a[2] < b[2]
    \/ a[1] = b[1] /\ a[2] = b[2] /\ a[3] < b[3]

\* min that returns the first element without comparing.
MinFirst(valid_dates) == valid_dates[1]

\* min(valid_dates): the first element that no other element is less than.
RECURSIVE Min(_)
Min(valid_dates) ==
    IF Len(valid_dates) = 1
    THEN valid_dates[1]
    ELSE LET rest == Min(Tail(valid_dates))
         IN  IF IsoLess(rest, valid_dates[1]) THEN rest ELSE valid_dates[1]

\* find_earliest_date giving up when one of the dates is None.
find_earliest_date_strict(edition_pub_dates) ==
    IF edition_pub_dates.none
    THEN None
    ELSE LET valid_dates == SelectSeq(edition_pub_dates.items, LAMBDA date : date # None)
         IN  IF valid_dates # <<>> /\ Len(valid_dates) = Len(edition_pub_dates.items)
             THEN Min(valid_dates)
             ELSE None

find_earliest_date(edition_pub_dates) ==
    IF edition_pub_dates.none
    THEN None
    ELSE LET valid_dates == SelectSeq(edition_pub_dates.items, LAMBDA date : date # None)
         IN  IF valid_dates # <<>> THEN Min(valid_dates) ELSE None

\* compare_values with the tolerance given to a January 1 of Wikidata instead
\* of a January 1 of the external source.
compare_values_swapped(wd_date, ol_date) ==
    IF wd_date # ol_date
    THEN IF wd_date.year = ol_date.year
         THEN IF (wd_date.day = 1 /\ wd_date.month = 1)
                 /\ (ol_date.month # 1 \/ (ol_date.month = 1 /\ ol_date.day # 1))
              THEN TRUE
              ELSE FALSE
         ELSE FALSE
    ELSE TRUE

compare_values(wd_date, ol_date) ==
    IF wd_date # ol_date
    THEN IF wd_date.year = ol_date.year
         THEN IF (ol_date.day = 1 /\ ol_date.month = 1)
                 /\ (wd_date.month # 1 \/ (wd_date.month = 1 /\ wd_date.day # 1))
              THEN TRUE
              ELSE FALSE
         ELSE FALSE
    ELSE TRUE

(***************************************************************************)
(* The inputs of the date functions.                                       *)
(***************************************************************************)
Years == {2022, 2023}
Months == {1, 4, 5}
Days == {1, 15}

\* The string a format stands for, for one date; pad writes "01" for "1".
Render(fmt, y, m, d, pad) ==
    [i \in 1..Len(fmt) |->
        CASE fmt[i] = "%Y" -> Num(4, y)
          [] fmt[i] = "%m" -> Num(IF pad \/ m > 9 THEN 2 ELSE 1, m)
          [] fmt[i] = "%d" -> Num(IF pad \/ d > 9 THEN 2 ELSE 1, d)
          [] fmt[i] = "%B" -> Word(FullNames[m])
          [] fmt[i] = "%b" -> Word(AbbrNames[m])
          [] OTHER -> Sep(fmt[i])]

RecognizedStrings ==
    {Render(formats[i], y, m, d, pad) :
        i \in 1..Len(formats), y \in Years, m \in Months, d \in Days, pad \in BOOLEAN}

\* "", "circa 2022", "22", "February 30, 2022", "0000", "2022-13", "2022/04/15"
UnrecognizedStrings ==
    { <<>>,
      <<Word("circa"), Sep(" "), Num(4, 2022)>>,
      <<Num(2, 22)>>,
      <<Word("February"), Sep(" "), Num(2, 30), Sep(","), Sep(" "), Num(4, 2022)>>,
      <<Num(4, 0)>>,
      <<Num(4, 2022), Sep("-"), Num(2, 13)>>,
      <<Num(4, 2022), Sep("/"), Num(2, 4), Sep("/"), Num(2, 15)>> }

DateStrings == RecognizedStrings \cup UnrecognizedStrings

Datetimes == [year : Years, month : Months, day : Days]

\* The ISO strings of the dates of the test cells of find_earliest_date.
IsoDates == { <<2021, 1, 1>>, <<2022, 2, 2>>, <<2020, 12, 31>>, <<2021, 6, 3>> }

SeqsUpTo(S, n) == UNION {[1..k -> S] : k \in 0..n}

(***************************************************************************)
(* The functions called on their own, as the test cells of the notebook    *)
(* call them.                                                              *)
(***************************************************************************)
InitConvert ==
    /\ script = "convert_to_iso_8601"
    /\ pc = "call"
    /\ call \in [date_str : DateStrings]
    /\ ret = None
    /\ NoRun

CallConvert ==
    /\ script = "convert_to_iso_8601" /\ pc = "call"
    /\ ret' = convert_to_iso_8601(call.date_str)
    /\ pc' = "done"
    /\ UNCHANGED <<script, call, runVars>>

InitEarliest ==
    /\ script = "find_earliest_date"
    /\ pc = "call"
    /\ call \in [edition_pub_dates :
                    {NoneList} \cup {List(s) : s \in SeqsUpTo(IsoDates \cup {None}, MaxDates)}]
    /\ ret = None
    /\ NoRun

CallEarliest ==
    /\ script = "find_earliest_date" /\ pc = "call"
    /\ ret' = find_earliest_date(call.edition_pub_dates)
    /\ pc' = "done"
    /\ UNCHANGED <<script, call, runVars>>

\* The candidate of compare_values is what the normalizer made of a string of
\* the external source (find_mismatches, lines 394 to 402).
InitCompare ==
    /\ script = "compare_values"
    /\ pc = "call"
    /\ \E wd \in Datetimes, src \in RecognizedStrings :
          call = [wd_date |-> wd, ol_src |-> src,
                  ol_date |-> iso_8601_to_datetime(convert_to_iso_8601(src))]
    /\ ret = None
    /\ NoRun

CallCompare ==
    /\ script = "compare_values" /\ pc = "call"
    /\ ret' = compare_values(call.wd_date, call.ol_date)
    /\ pc' = "done"
    /\ UNCHANGED <<script, call, runVars>>


(***************************************************************************)
(* The validator check_mf_formatting (MismatchGeneration/utils.py).        *)
(*                                                                         *)
(* A cell of the DataFrame is a record [null, chars, pad]: null for NaN,   *)
(* chars the characters of a string (an id is spelled character by         *)
(* character, a URL part by part), pad a number of further characters that *)
(* are not spelled out, so that the length of the string is                *)
(* Len(chars) + pad.  A DataFrame is [columns, rows], rows being records   *)
(* over the eight column names; a cell of a column that is not in columns  *)
(* is never read.                                                          *)
(***************************************************************************)
NaN == [null |-> TRUE, chars |-> <<>>, pad |-> 0]
Str(chars) == [null |-> FALSE, chars |-> chars, pad |-> 0]
Padded(chars, n) == [null |-> FALSE, chars |-> chars, pad |-> n]

MaxValueLength == 1500

required_columns == <<"item_id", "statement_guid", "property_id", "wikidata_value",
                      "meta_wikidata_value", "external_value", "external_url", "type">>

HasColumn(df, c) == \E i \in 1..Len(df.columns) : df.columns[i] = c

\* df[c] as the sequence of its cells.
Column(df, c) == [i \in 1..Len(df.rows) |-> df.rows[i][c]]

\* A column of a non-empty frame whose cells are all NaN has dtype float64:
\* it has no .str accessor and its NaN are not the object np.nan.
IsFloatColumn(df, c) ==
    Len(df.rows) > 0 /\ \A i \in 1..Len(df.rows) : df.rows[i][c].null

Digits == {"0", "1", "2", "3", "4", "5", "6", "7", "8", "9"}

\* Series.astype(str): NaN becomes the string "nan".
AsTypeStr(cell) == IF cell.null THEN <<"n", "a", "n">> ELSE cell.chars

\* re.match(r"^<letter>\d+$", s); $ also matches before a final newline.
MatchId(letter, chars) ==
    LET n == IF Len(chars) > 0 /\ chars[Len(chars)] = "\n" THEN Len(chars) - 1 ELSE Len(chars)
    IN  /\ n >= 2
        /\ chars[1] = letter
        /\ \A i \in 2..n : chars[i] \in Digits

\* urlparse(url): the scheme is what precedes the first ":", the netloc what
\* follows "//" after it.
Urlparse(chars) ==
    IF Len(chars) >= 2 /\ chars[2] = ":"
    THEN [scheme |-> chars[1],
          netloc |-> IF Len(chars) >= 4 /\ chars[3] = "//" THEN chars[4] ELSE ""]
    ELSE [scheme |-> "",
          netloc |-> IF Len(chars) >= 2 /\ chars[1] = "//" THEN chars[2] ELSE ""]

\* pd.isnull(url) is a bool.
PdIsnull(cell) == cell.null

\* `b is None` for a bool b.
BoolIsNone(b) == FALSE

validate_url(url) ==
    IF BoolIsNone(PdIsnull(url))
    THEN LET url_parse == Urlparse(url.chars)
         IN  url_parse.scheme # "" /\ url_parse.netloc # ""
    ELSE TRUE

Msg(check, cols, rows) == [check |-> check, cols |-> cols, rows |-> rows]

\* 1. Check that all required columns are included.
CheckColumns(df) ==
    IF df.columns # required_columns THEN <<Msg(1, required_columns, <<>>)>> ELSE <<>>

\* 2. Check that all QIDs and PIDs are formatted correctly.
CheckIds(df) ==
    LET id_columns_included ==
            SelectSeq(<<"item_id", "property_id">>, LAMBDA c : HasColumn(df, c))
        Invalid(c) ==
            LET letter == IF c = "item_id" THEN "Q" ELSE "P"
            IN  ~\A i \in 1..Len(df.rows) : MatchId(letter, AsTypeStr(df.rows[i][c]))
        columns_with_invalid_ids == SelectSeq(id_columns_included, Invalid)
    IN  IF columns_with_invalid_ids # <<>>
        THEN <<Msg(2, columns_with_invalid_ids, <<>>)>>
        ELSE <<>>

\* 3. Check that there are no nulls in non-optional columns.
CheckNulls(df) ==
    LET required_value_columns_included ==
            SelectSeq(<<"item_id", "property_id", "external_value">>,
                      LAMBDA c : HasColumn(df, c))
        columns_with_nulls ==
            SelectSeq(required_value_columns_included,
                      LAMBDA c : \E i \in 1..Len(df.rows) : df.rows[i][c].null)
    IN  IF columns_with_nulls # <<>> THEN <<Msg(3, columns_with_nulls, <<>>)>> ELSE <<>>

\* 4. Check that values exist for all rows where there is a statement.
CheckGuids(df) ==
    IF HasColumn(df, "statement_guid") /\ HasColumn(df, "wikidata_value")
    THEN LET check_empty_value_list ==
                 [i \in 1..Len(df.rows) |->
                     ~df.rows[i]["wikidata_value"].null /\ df.rows[i]["statement_guid"].null]
         IN  IF \E i \in 1..Len(df.rows) : check_empty_value_list[i]
             THEN <<Msg(4, <<>>, <<>>)>>
             ELSE <<>>
    ELSE <<>>

\* The indexes i in 1..n with checks[i] = False, in increasing order.
RECURSIVE IndexesOfFalse(_, _)
IndexesOfFalse(checks, n) ==
    IF n = 0 THEN <<>>
    ELSE IF checks[n] = FALSE THEN Append(IndexesOfFalse(checks, n - 1), n)
    ELSE IndexesOfFalse(checks, n - 1)

\* 5. Check that all external URLs are valid.
CheckUrls(df) ==
    IF HasColumn(df, "external_url")
    THEN LET url_validation_checks ==
                 [i \in 1..Len(df.rows) |-> validate_url(df.rows[i]["external_url"])]
             invalid_urls == IndexesOfFalse(url_validation_checks, Len(df.rows))
         IN  IF invalid_urls # <<>> THEN <<Msg(5, <<>>, invalid_urls)>> ELSE <<>>
    ELSE <<>>

\* 6. Check that all type values are 'statement', 'qualifier' or a null value.
\* The NaN of a float64 column is a new object, not np.nan, so it is not in
\* allowed_types.
CheckTypes(df) ==
    IF HasColumn(df, "type")
    THEN LET Allowed(cell) ==
                 IF cell.null
                 THEN ~IsFloatColumn(df, "type")
                 ELSE cell.chars \in {<<"statement">>, <<"qualifier">>}
         IN  IF \E i \in 1..Len(df.rows) : ~Allowed(df.rows[i]["type"])
             THEN <<Msg(6, <<>>, <<>>)>>
             ELSE <<>>
    ELSE <<>>

check_value_length_columns == <<"wikidata_value", "external_value", "external_url">>

\* 7. Check that values for certain columns are less than 1,500 characters.
CheckLengths(df) ==
    LET check_value_length_columns_included ==
            SelectSeq(check_value_length_columns, LAMBDA c : HasColumn(df, c))
        TooLong(c) ==
            \E i \in 1..Len(df.rows) :
                /\ ~df.rows[i][c].null
                /\ Len(df.rows[i][c].chars) + df.rows[i][c].pad > MaxValueLength
        columns_with_too_long_values ==
            SelectSeq(check_value_length_columns_included, TooLong)
    IN  IF columns_with_too_long_values # <<>>
        THEN <<Msg(7, columns_with_too_long_values, <<>>)>>
        ELSE <<>>

\* df[c].str raises AttributeError for a column that is not of strings.
StrAccessorRaises(df) ==
    \E i \in 1..Len(check_value_length_columns) :
        /\ HasColumn(df, check_value_length_columns[i])
        /\ IsFloatColumn(df, check_value_length_columns[i])

\* check_mf_formatting(df): the exception it raises ("none" when it prints
\* that all checks have passed) and the numbered correction instructions of
\* its ValueError.
check_mf_formatting(df) ==
    LET correction_instruction ==
            CheckColumns(df) \o CheckIds(df) \o CheckNulls(df) \o CheckGuids(df)
                \o CheckUrls(df) \o CheckTypes(df) \o CheckLengths(df)
    IN  IF StrAccessorRaises(df)
        THEN [raised |-> "AttributeError", correction_instruction |-> <<>>]
        ELSE IF correction_instruction # <<>>
        THEN [raised |-> "ValueError", correction_instruction |-> correction_instruction]
        ELSE [raised |-> "none", correction_instruction |-> <<>>]

(***************************************************************************)
(* The copy of the validator in check_mismatch_file.py: _validate_url and  *)
(* check_mf_formatting, which tests with `not x` where the copy of         *)
(* utils.py compares with True or False.                                   *)
(***************************************************************************)
\* _validate_url that parses the URL of a cell that is not null.
_validate_url_parsed(url) ==
    IF ~PdIsnull(url)
    THEN LET url_parse == Urlparse(url.chars)
         IN  url_parse.scheme # "" /\ url_parse.netloc # ""
    ELSE TRUE

_validate_url(url) ==
    IF BoolIsNone(PdIsnull(url))
    THEN LET url_parse == Urlparse(url.chars)
         IN  url_parse.scheme # "" /\ url_parse.netloc # ""
    ELSE TRUE

\* `not x` for a bool or numpy.bool_ x.
Not(x) == x = FALSE

\* 1. Check that all required columns are included.
CliCheckColumns(df) ==
    IF df.columns # required_columns THEN <<Msg(1, required_columns, <<>>)>> ELSE <<>>

\* 2. Check that all QIDs and PIDs are formatted correctly.
CliCheckIds(df) ==
    LET id_columns_included ==
            SelectSeq(<<"item_id", "property_id">>, LAMBDA c : HasColumn(df, c))
        Invalid(c) ==
            IF c = "item_id"
            THEN Not(\A i \in 1..Len(df.rows) : MatchId("Q", AsTypeStr(df.rows[i][c])))
            ELSE Not(\A i \in 1..Len(df.rows) : MatchId("P", AsTypeStr(df.rows[i][c])))
        columns_with_invalid_ids == SelectSeq(id_columns_included, Invalid)
    IN  IF columns_with_invalid_ids # <<>>
        THEN <<Msg(2, columns_with_invalid_ids, <<>>)>>
        ELSE <<>>

\* 3. Check that there are no nulls in non-optional columns.
CliCheckNulls(df) ==
    LET required_value_columns_included ==
            SelectSeq(<<"item_id", "property_id", "external_value">>,
                      LAMBDA c : HasColumn(df, c))
        columns_with_nulls ==
            SelectSeq(required_value_columns_included,
                      LAMBDA c : \E i \in 1..Len(df.rows) : PdIsnull(df.rows[i][c]))
    IN  IF columns_with_nulls # <<>> THEN <<Msg(3, columns_with_nulls, <<>>)>> ELSE <<>>

\* 4. Check that values exist for all rows where there is a statement.
CliCheckGuids(df) ==
    IF HasColumn(df, "statement_guid") /\ HasColumn(df, "wikidata_value")
    THEN LET guids == [i \in 1..Len(df.rows) |-> df.rows[i]["statement_guid"]]
             wd_values == [i \in 1..Len(df.rows) |-> df.rows[i]["wikidata_value"]]
             check_empty_value_list ==
                 [i \in 1..Len(guids) |-> ~PdIsnull(wd_values[i]) /\ PdIsnull(guids[i])]
         IN  IF \E i \in 1..Len(guids) : check_empty_value_list[i] = TRUE
             THEN <<Msg(4, <<>>, <<>>)>>
             ELSE <<>>
    ELSE <<>>

\* 5. Check that all external URLs are valid.
CliCheckUrls(df) ==
    IF HasColumn(df, "external_url")
    THEN LET url_validation_checks ==
                 [i \in 1..Len(df.rows) |-> _validate_url(df.rows[i]["external_url"])]
         IN  IF \E i \in 1..Len(df.rows) : url_validation_checks[i] = FALSE
             THEN LET invalid_urls ==
                          SelectSeq([i \in 1..Len(df.rows) |-> i],
                                    LAMBDA i : Not(url_validation_checks[i]))
                  IN  <<Msg(5, <<>>, invalid_urls)>>
             ELSE <<>>
    ELSE <<>>

\* 6. Check that all type values are 'statement', 'qualifier' or a null value.
CliCheckTypes(df) ==
    IF HasColumn(df, "type")
    THEN LET included_types == {df.rows[i]["type"] : i \in 1..Len(df.rows)}
             Allowed(cell) ==
                 IF cell.null
                 THEN ~IsFloatColumn(df, "type")
                 ELSE cell.chars \in {<<"statement">>, <<"qualifier">>}
         IN  IF ~\A cell \in included_types : Allowed(cell)
             THEN <<Msg(6, <<>>, <<>>)>>
             ELSE <<>>
    ELSE <<>>

\* 7. Check that values for certain columns are less than 1,500 characters.
CliCheckLengths(df) ==
    LET check_value_length_columns_included ==
            SelectSeq(<<"wikidata_value", "external_value", "external_url">>,
                      LAMBDA c : HasColumn(df, c))
        StrLen(cell) == Len(cell.chars) + cell.pad
        columns_with_too_long_values ==
            SelectSeq(check_value_length_columns_included,
                      LAMBDA c : \E i \in 1..Len(df.rows) :
                                    ~df.rows[i][c].null /\ StrLen(df.rows[i][c]) > 1500)
    IN  IF columns_with_too_long_values # <<>>
        THEN <<Msg(7, columns_with_too_long_values, <<>>)>>
        ELSE <<>>

\* df[c].str of check 7 raises AttributeError for a column of floats.
CliStrAccessorRaises(df) ==
    \E c \in {"wikidata_value", "external_value", "external_url"} :
        HasColumn(df, c) /\ IsFloatColumn(df, c)

\* check_mf_formatting(df) of check_mismatch_file.py.
cli_check_mf_formatting(df) ==
    LET correction_instruction ==
            CliCheckColumns(df) \o CliCheckIds(df) \o CliCheckNulls(df) \o CliCheckGuids(df)
                \o CliCheckUrls(df) \o CliCheckTypes(df) \o CliCheckLengths(df)
        df_formatted_correctly == correction_instruction = <<>>
    IN  IF CliStrAccessorRaises(df)
        THEN [raised |-> "AttributeError", correction_instruction |-> <<>>]
        ELSE IF Not(df_formatted_correctly)
        THEN [raised |-> "ValueError", correction_instruction |-> correction_instruction]
        ELSE [raised |-> "none", correction_instruction |-> <<>>]

(***************************************************************************)
(* The inputs of the validator.  The length of a cell counts every element *)
(* of chars as one character.                                              *)
(***************************************************************************)
Timestamp == <<"2022-04-15T00:00:00Z">>
OpenLibraryUrl == <<"https", ":", "//", "openlibrary.org", "/works/OL1W">>

ItemIds == {Str(<<"Q", "1">>), Str(<<"X", "1">>), NaN}
PropertyIds == {Str(<<"P", "5", "7", "7">>), Str(<<"5", "7", "7">>), NaN}
Guids == {Str(<<"Q1$abc">>), NaN}
Values == {Str(Timestamp), NaN,
           Padded(Timestamp, MaxValueLength - 1), Padded(Timestamp, MaxValueLength)}
Urls == {Str(OpenLibraryUrl), Str(<<"not-a-url">>), Str(<<"mailto", ":", "a@b">>), NaN,
         Padded(OpenLibraryUrl, MaxValueLength)}
Types == {Str(<<"statement">>), Str(<<"qualifier">>), Str(<<"reference">>), NaN}

AllRows ==
    [item_id : ItemIds, statement_guid : Guids, property_id : PropertyIds,
     wikidata_value : Values, meta_wikidata_value : {NaN}, external_value : Values,
     external_url : Urls, type : Types]

\* The row of the minimal well-formed batch.
GoodRow ==
    [item_id |-> Str(<<"Q", "1">>), statement_guid |-> Str(<<"Q1$abc">>),
     property_id |-> Str(<<"P", "5", "7", "7">>), wikidata_value |-> Str(Timestamp),
     meta_wikidata_value |-> NaN, external_value |-> Str(Timestamp),
     external_url |-> Str(OpenLibraryUrl), type |-> Str(<<"statement">>)]

ColumnNames == {required_columns[i] : i \in 1..Len(required_columns)}

\* The rows that differ from GoodRow in at most one cell.
NearGoodRows ==
    {r \in AllRows : Cardinality({c \in ColumnNames : r[c] # GoodRow[c]}) <= 1}

Without(cols, c) == SelectSeq(cols, LAMBDA x : x # c)

\* The exact header, one with two columns exchanged, two with a column missing.
ColumnVariants ==
    { required_columns,
      [i \in 1..8 |-> IF i = 7 THEN "type" ELSE IF i = 8 THEN "external_url"
                                               ELSE required_columns[i]],
      Without(required_columns, "external_url"),
      Without(required_columns, "wikidata_value") }

\* Frames of no row, of one row of any kind, and of several near-good rows;
\* and pd.DataFrame([]), which has no column at all.
Frames ==
    {[columns |-> <<>>, rows |-> <<>>]}
    \cup {[columns |-> cols, rows |-> rows] :
            cols \in ColumnVariants,
            rows \in {<<>>} \cup {<<r>> : r \in AllRows}
                     \cup UNION {[1..k -> NearGoodRows] : k \in 2..MaxRows}}

InitCheck ==
    /\ script = "check_mf_formatting"
    /\ pc = "call"
    /\ call \in [df : Frames]
    /\ ret = None
    /\ NoRun

\* The frame after a call with the id columns replaced by their astype(str).
DfAfterCallIdsCast(df) ==
    [df EXCEPT !.rows =
        [i \in 1..Len(df.rows) |->
            [df.rows[i] EXCEPT !["item_id"] = Str(AsTypeStr(df.rows[i]["item_id"])),
                               !["property_id"] = Str(AsTypeStr(df.rows[i]["property_id"]))]]]

\* The frame after a call of check_mf_formatting(df): the function only
\* reads df (astype, isnull, .values, unique and .str return new objects).
DfAfterCall(df) == df

CallCheck ==
    /\ script = "check_mf_formatting" /\ pc = "call"
    /\ ret' = check_mf_formatting(call.df)
    /\ call' = [df |-> DfAfterCall(call.df)]
    /\ pc' = "done"
    /\ UNCHANGED <<script, runVars>>

\* A second call on the same frame object.
CallCheckAgain ==
    /\ script = "check_mf_formatting" /\ pc = "done"
    /\ ret' = check_mf_formatting(call.df)
    /\ call' = [df |-> DfAfterCall(call.df)]
    /\ pc' = "twice"
    /\ UNCHANGED <<script, runVars>>

\* The two copies of check_mf_formatting called on the same frame.
InitBoth ==
    /\ script = "check_mf_formatting copies"
    /\ pc = "call"
    /\ call \in [df : Frames]
    /\ ret = None
    /\ NoRun

CallBoth ==
    /\ script = "check_mf_formatting copies" /\ pc = "call"
    /\ ret' = [utils |-> check_mf_formatting(call.df),
               check_mismatch_file |-> cli_check_mf_formatting(call.df)]
    /\ pc' = "done"
    /\ UNCHANGED <<script, call, runVars>>

NextCheck == CallCheck \/ CallCheckAgain \/ CallBoth
InitChecks == InitCheck \/ InitBoth
SpecCheck == InitChecks /\ [][NextCheck]_vars

(***************************************************************************)
(* The Open Library generator: get_editions_publication_dates,             *)
(* find_mismatches and the cells that check and write the batch.           *)
(*                                                                         *)
(* A response to requests.get(url) is [kind, status, entries]:             *)
(*   "ConnectionError"  the request raised (timeout, no connection);       *)
(*   "HTTPError"        a status for which raise_for_status raises;        *)
(*   "InvalidJSON"      a 2xx response whose body is not JSON;             *)
(*   "NoEntries"        a JSON object without the key "entries";           *)
(*   "Entries"          a JSON object whose "entries" is the list entries. *)
(* An edition is [dict, has_date, publish_date]: dict is false for an      *)
(* entry that is not a JSON object.                                        *)
(***************************************************************************)
Edition(has_date, publish_date) ==
    [dict |-> TRUE, has_date |-> has_date, publish_date |-> publish_date]
NotADict == [dict |-> FALSE, has_date |-> FALSE, publish_date |-> <<>>]

\* The loop with a null appended for an edition without publish_date.
RECURSIVE EditionsLoopWithNulls(_, _, _)
EditionsLoopWithNulls(entries, i, pub_dates) ==
    IF i > Len(entries)
    THEN IF pub_dates # <<>> THEN List(pub_dates) ELSE NoneList
    ELSE IF ~entries[i].dict
    THEN NoneList
    ELSE IF ~entries[i].has_date
    THEN EditionsLoopWithNulls(entries, i + 1, Append(pub_dates, None))
    ELSE EditionsLoopWithNulls(entries, i + 1,
                      Append(pub_dates, convert_to_iso_8601(entries[i].publish_date)))

\* The loop over editions_data["entries"][i..]: the list of dates, or None
\* when an entry raised or no date was found at all.
RECURSIVE EditionsLoop(_, _, _)
EditionsLoop(entries, i, pub_dates) ==
    IF i > Len(entries)
    THEN IF pub_dates # <<>> THEN List(pub_dates) ELSE NoneList
    ELSE IF ~entries[i].dict
    THEN NoneList
    ELSE IF ~entries[i].has_date
    THEN EditionsLoop(entries, i + 1, pub_dates)
    ELSE EditionsLoop(entries, i + 1,
                      Append(pub_dates, convert_to_iso_8601(entries[i].publish_date)))

\* get_editions_publication_dates(external_id), given the response to its
\* request: the exception that leaves it ("none" when it returns) and the
\* value returned.  RequestException and JSONDecodeError are caught; the
\* KeyError of editions_data["entries"] is not.
get_editions_publication_dates(response) ==
    CASE response.kind \in {"ConnectionError", "HTTPError", "InvalidJSON"} ->
            [raised |-> "none", value |-> NoneList]
      [] response.kind = "NoEntries" ->
            [raised |-> "KeyError", value |-> NoneList]
      [] OTHER ->
            [raised |-> "none", value |-> EditionsLoop(response.entries, 1, <<>>)]

\* datetime.fromisoformat(wd_date) for the publicationDate cell of the input:
\* an ISO string gives a datetime, another string raises ValueError, a
\* missing value (NaN, a float) raises TypeError.
fromisoformat(wd_date) ==
    CASE wd_date.kind = "iso" -> [raised |-> "none", value |-> iso_8601_to_datetime(wd_date.date)]
      [] wd_date.kind = "text" -> [raised |-> "ValueError", value |-> None]
      [] OTHER -> [raised |-> "TypeError", value |-> None]

DateChars(dt) == <<ToString(dt.year), "-", ToString(dt.month), "-", ToString(dt.day)>>

\* datetime_to_str of a datetime localized to UTC: isoformat() + "Z".
datetime_to_str(dt) == DateChars(dt) \o <<"T00:00:00", "+00:00", "Z">>

\* str(wd_date) for an ISO string of the input.
WdDateChars(wd_date) == DateChars(iso_8601_to_datetime(wd_date.date)) \o <<"T00:00:00", "Z">>

\* The dictionary find_mismatches appends.
MismatchRow(r, ol_earliest_date) ==
    [item_id |-> Str(r.item),
     statement_guid |-> Str(r.item),
     property_id |-> Str(<<"P", "5", "7", "7">>),
     wikidata_value |-> Str(WdDateChars(r.publicationDate)),
     meta_wikidata_value |-> Str(<<>>),
     external_value |-> Str(datetime_to_str(ol_earliest_date)),
     external_url |-> Str(<<"https", ":", "//", "openlibrary.org", "/works/", r.openLibraryID>>),
     type |-> Str(<<"statement">>)]

\* The list after the rows of a pass have been added to it with .append in
\* the order given, with the new rows put in front instead.
PrependRows(list, rows) == rows \o list

\* The list after the rows of a pass have been added to it with .append, in
\* the order given (dataframe.append of find_mismatches, acc.append of
\* run.py).
AppendRows(list, rows) == list \o rows

PassResult(exc, again, rows, assigned, requested, value) ==
    [raised |-> exc, again |-> again, rows |-> rows, bound |-> assigned,
     requested |-> requested, pub_date |-> value]

\* What the except clauses of find_mismatches do with an exception raised in
\* the try block.  The handler of ValueError prints ol_earliest_date, which
\* raises UnboundLocalError while the local has never been assigned; the
\* handler of RateLimitException sleeps 60 seconds and lets the loop repeat;
\* every other exception leaves find_mismatches.
Handle(exc, assigned, requested, value) ==
    CASE exc = "ValueError" ->
            IF assigned
            THEN PassResult("none", FALSE, <<>>, assigned, requested, value)
            ELSE PassResult("UnboundLocalError", FALSE, <<>>, assigned, requested, value)
      [] exc = "JSONDecodeError" ->
            PassResult("none", FALSE, <<>>, assigned, requested, value)
      [] exc = "RateLimitException" ->
            PassResult("none", TRUE, <<>>, assigned, requested, value)
      [] OTHER ->
            PassResult(exc, FALSE, <<>>, assigned, requested, value)

\* One pass of the `while True` loop of find_mismatches for the record r,
\* given the response to the request of get_editions_publication_dates.
FindMismatchesPass(r, response, assigned) ==
    LET wd_date_datetime == fromisoformat(r.publicationDate)
    IN  IF wd_date_datetime.raised # "none"
        THEN Handle(wd_date_datetime.raised, assigned, FALSE, NoneList)
        ELSE
        LET got == get_editions_publication_dates(response)
        IN  IF got.raised # "none"
            THEN Handle(got.raised, assigned, TRUE, NoneList)
            ELSE
            LET ol_earliest_date == find_earliest_date(got.value)
            IN  IF ol_earliest_date = None
                THEN PassResult("none", FALSE, <<>>, TRUE, TRUE, got.value)
                ELSE IF compare_values(wd_date_datetime.value,
                                       iso_8601_to_datetime(ol_earliest_date)) = FALSE
                THEN PassResult("none", FALSE,
                                <<MismatchRow(r, iso_8601_to_datetime(ol_earliest_date))>>,
                                TRUE, TRUE, got.value)
                ELSE PassResult("none", FALSE, <<>>, TRUE, TRUE, got.value)

(***************************************************************************)
(* The inputs of the generator.                                            *)
(***************************************************************************)
\* "2022", "April 15, 2022", "2023", "circa 2022"
PublishDates ==
    { <<Num(4, 2022)>>,
      <<Word("April"), Sep(" "), Num(2, 15), Sep(","), Sep(" "), Num(4, 2022)>>,
      <<Num(4, 2023)>>,
      <<Word("circa"), Sep(" "), Num(4, 2022)>> }

Editions ==
    {Edition(TRUE, d) : d \in PublishDates} \cup {Edition(FALSE, <<>>), NotADict}

RateLimited == [kind |-> "HTTPError", status |-> 403, entries |-> <<>>]

Failures ==
    { [kind |-> "ConnectionError", status |-> 0, entries |-> <<>>],
      RateLimited,
      [kind |-> "HTTPError", status |-> 404, entries |-> <<>>],
      [kind |-> "InvalidJSON", status |-> 200, entries |-> <<>>],
      [kind |-> "NoEntries", status |-> 200, entries |-> <<>>] }

Entries(e) == [kind |-> "Entries", status |-> 200, entries |-> e]

\* The responses get_editions_publication_dates is called on by itself.
Responses == Failures \cup {Entries(e) : e \in SeqsUpTo(Editions, MaxEditions)}

Year2022 == Edition(TRUE, <<Num(4, 2022)>>)
Year2023 == Edition(TRUE, <<Num(4, 2023)>>)
Circa2022 == Edition(TRUE, <<Word("circa"), Sep(" "), Num(4, 2022)>>)
Undated == Edition(FALSE, <<>>)

\* The responses to the request of a pass of find_mismatches: every failure,
\* and works with no edition, with dated, undated and unparseable editions.
WorkResponses ==
    Failures \cup
    { Entries(<<>>), Entries(<<Undated>>), Entries(<<Circa2022>>), Entries(<<NotADict>>),
      Entries(<<Year2022>>), Entries(<<Year2023>>),
      Entries(<<Year2023, Undated, Year2022>>), Entries(<<Circa2022, Year2023>>) }

WdDates ==
    { [kind |-> "iso", date |-> <<2022, 4, 15>>],
      [kind |-> "iso", date |-> <<2022, 1, 1>>],
      [kind |-> "text", date |-> <<>>],
      [kind |-> "nan", date |-> <<>>] }

\* The i-th record of the query results.
Records(i) ==
    [item : { <<"Q", ToString(i)>> },
     openLibraryID : { "OL" \o ToString(i) \o "W" },
     publicationDate : WdDates]

\* pd.DataFrame(mismatches): the columns are the keys of the dictionaries, a
\* frame of no row has no column.
DataFrame(rows) ==
    [columns |-> IF rows = <<>> THEN <<>> ELSE required_columns, rows |-> rows]

(***************************************************************************)
(* get_editions_publication_dates called on its own, as the cell that      *)
(* tests it calls it.                                                      *)
(***************************************************************************)
InitEditions ==
    /\ script = "get_editions_publication_dates"
    /\ pc = "call"
    /\ call \in [response : Responses]
    /\ ret = None
    /\ NoRun

CallEditions ==
    /\ script = "get_editions_publication_dates" /\ pc = "call"
    /\ ret' = get_editions_publication_dates(call.response)
    /\ pc' = "done"
    /\ UNCHANGED <<script, call, runVars>>

InitDates == InitConvert \/ InitEarliest \/ InitCompare \/ InitEditions
NextDates == CallConvert \/ CallEarliest \/ CallCompare \/ CallEditions
SpecDates == InitDates /\ [][NextDates]_vars

(***************************************************************************)
(* The script: find_mismatches over the query results, then the cells that *)
(* check and write the batch.  The script calls find_mismatches on three   *)
(* frames of query results and concatenates the three lists; the model     *)
(* runs one call over the records.                                         *)
(***************************************************************************)
InitOL ==
    /\ script = "OL-Publication-Date-Mismatch-Generation"
    /\ pc = "find_mismatches"
    /\ call = [df |-> DataFrame(<<>>)]
    /\ ret = None
    /\ total \in 0..MaxRecords
    /\ idx = 0 /\ mismatches = <<>> /\ bound = FALSE
    /\ row = <<>> /\ fetch = NoRequest /\ pub_date = NoneList
    /\ raised = NotRaised /\ csv = NoFile /\ sent = <<>> /\ fs = NoFiles /\ printed = <<>>

\* One pass of the loop body for the next record.
FindMismatches ==
    /\ script = "OL-Publication-Date-Mismatch-Generation"
    /\ pc = "find_mismatches" /\ idx < total
    /\ \E r \in Records(idx + 1), response \in WorkResponses :
          LET out == FindMismatchesPass(r, response, bound)
          IN  /\ row' = r
              /\ fetch' = IF out.requested THEN response ELSE NoRequest
              /\ pub_date' = out.pub_date
              /\ bound' = out.bound
              /\ IF out.raised # "none"
                 THEN /\ raised' = [exc |-> out.raised, at |-> "find_mismatches"]
                      /\ pc' = "aborted"
                      /\ UNCHANGED <<idx, mismatches>>
                 ELSE /\ idx' = IF out.again THEN idx ELSE idx + 1
                      /\ mismatches' = AppendRows(mismatches, out.rows)
                      /\ UNCHANGED <<raised, pc>>
    /\ UNCHANGED <<script, call, ret, total, csv, sent, fs, printed>>

\* The cell check_mf_formatting(mismatch_dataframe), reached when the loop
\* has visited every record.
CheckBatch ==
    /\ script = "OL-Publication-Date-Mismatch-Generation"
    /\ pc = "find_mismatches" /\ idx = total
    /\ call' = [df |-> DataFrame(mismatches)]
    /\ ret' = check_mf_formatting(DataFrame(mismatches))
    /\ IF ret'.raised # "none"
       THEN /\ raised' = [exc |-> ret'.raised, at |-> "check_mf_formatting"]
            /\ pc' = "aborted"
       ELSE /\ pc' = "to_csv"
            /\ UNCHANGED raised
    /\ UNCHANGED <<script, total, idx, mismatches, bound, row, fetch, pub_date, csv, sent, fs, printed>>

\* The cell mismatch_dataframe.to_csv(...).
ToCsv ==
    /\ script = "OL-Publication-Date-Mismatch-Generation"
    /\ pc = "to_csv"
    /\ csv' = [written |-> TRUE, df |-> call.df]
    /\ pc' = "done"
    /\ UNCHANGED <<script, call, ret, total, idx, mismatches, bound, row, fetch, pub_date,
                   raised, sent, fs, printed>>

(***************************************************************************)
(* run.py, the Mix-n-Match generator: the loop over the entries, then the  *)
(* lines that write mismatches.csv and check the frame.                    *)
(*                                                                         *)
(* The reply to the first request of a pass (the statements of the item)   *)
(* is [kind, has_pid, values]:                                             *)
(*   "URLError"      urlopen raised URLError (no connection, timeout);     *)
(*   "HTTPError"     urlopen raised HTTPError;                             *)
(*   "InvalidJSON"   the body is not JSON;                                 *)
(*   "NoStatements"  a JSON object without the key "statements";           *)
(*   "Statements"    has_pid tells whether the property is among the       *)
(*                   statements, values are its statements [id, type,      *)
(*                   time].                                                *)
(* The reply to the second request (the entry at Mix-n-Match) is           *)
(* [kind, ext_url]: the first three kinds, "NoEntries" for a reply whose   *)
(* "entries" is the empty list, and "Entry".                               *)
(***************************************************************************)
\* blank_entry with a time of its own.
blank_entry_dated ==
    [id |-> NaN, type |-> "value", time |-> Str(<<"+0000-00-00T00:00:00Z">>)]

blank_entry == [id |-> NaN, type |-> "value", time |-> NaN]

\* The loop `for wd_val in nonnull_wd_vals` from its i-th element on.
\* The loop without the test that skips a value equal to mnm_time.
RECURSIVE StatementsLoopNoSkip(_, _, _, _, _)
StatementsLoopNoSkip(entry, ext_url, nonnull_wd_vals, i, acc) ==
    IF i > Len(nonnull_wd_vals)
    THEN acc
    ELSE LET wd_val == nonnull_wd_vals[i]
         IN  IF wd_val.type # "value"
             THEN StatementsLoopNoSkip(entry, ext_url, nonnull_wd_vals, i + 1, acc)
             ELSE StatementsLoopNoSkip(entry, ext_url, nonnull_wd_vals, i + 1,
                    Append(acc,
                      [item_id |-> Str(entry.item_id),
                       statement_guid |-> wd_val.id,
                       property_id |-> Str(entry.pid),
                       wikidata_value |-> wd_val.time,
                       meta_wikidata_value |-> NaN,
                       external_value |-> Str(entry.mnm_time),
                       external_url |-> Str(ext_url),
                       type |-> Str(<<"statement">>)]))

RECURSIVE StatementsLoop(_, _, _, _, _)
StatementsLoop(entry, ext_url, nonnull_wd_vals, i, acc) ==
    IF i > Len(nonnull_wd_vals)
    THEN acc
    ELSE LET wd_val == nonnull_wd_vals[i]
         IN  IF wd_val.type # "value"
             THEN StatementsLoop(entry, ext_url, nonnull_wd_vals, i + 1, acc)
             ELSE IF wd_val.time = Str(entry.mnm_time)
             THEN StatementsLoop(entry, ext_url, nonnull_wd_vals, i + 1, acc)
             ELSE StatementsLoop(entry, ext_url, nonnull_wd_vals, i + 1,
                    Append(acc,
                      [item_id |-> Str(entry.item_id),
                       statement_guid |-> wd_val.id,
                       property_id |-> Str(entry.pid),
                       wikidata_value |-> wd_val.time,
                       meta_wikidata_value |-> NaN,
                       external_value |-> Str(entry.mnm_time),
                       external_url |-> Str(ext_url),
                       type |-> Str(<<"statement">>)]))

MnmResult(exc, rows, second) == [raised |-> exc, rows |-> rows, second |-> second]

\* One pass of the loop over the entries.  Only the HTTPError of the first
\* request and the TypeError of the second reply are caught, and both
\* continue with the next entry; every other exception leaves the script.
MnmPass(entry, wd, ext) ==
    CASE wd.kind = "HTTPError" -> MnmResult("none", <<>>, FALSE)
      [] wd.kind = "URLError" -> MnmResult("URLError", <<>>, FALSE)
      [] wd.kind = "InvalidJSON" -> MnmResult("JSONDecodeError", <<>>, FALSE)
      [] wd.kind = "NoStatements" -> MnmResult("KeyError", <<>>, FALSE)
      [] OTHER ->
            CASE ext.kind = "HTTPError" -> MnmResult("HTTPError", <<>>, TRUE)
              [] ext.kind = "URLError" -> MnmResult("URLError", <<>>, TRUE)
              [] ext.kind = "InvalidJSON" -> MnmResult("JSONDecodeError", <<>>, TRUE)
              [] ext.kind = "NoEntries" -> MnmResult("none", <<>>, TRUE)
              [] OTHER ->
                    MnmResult("none",
                              StatementsLoop(entry, ext.ext_url,
                                             IF wd.has_pid THEN wd.values ELSE <<blank_entry>>,
                                             1, <<>>),
                              TRUE)

\* The i-th entry of mnm_mismatch_data_expanded.
MnmEntry(i) ==
    [item_id |-> <<"Q", ToString(i)>>, entry_id |-> ToString(i),
     pid |-> <<"P", "5", "6", "9">>, mnm_time |-> <<"+1950-01-01T00:00:00Z">>]

Statement(type, time) == [id |-> Str(<<"Q1$abc">>), type |-> type, time |-> Str(time)]

WdReply(kind, has_pid, values) == [kind |-> kind, has_pid |-> has_pid, values |-> values]

WdReplies ==
    {WdReply(k, FALSE, <<>>) : k \in {"URLError", "HTTPError", "InvalidJSON", "NoStatements"}}
    \cup
    { WdReply("Statements", FALSE, <<>>),
      WdReply("Statements", TRUE, <<Statement("value", <<"+1950-01-01T00:00:00Z">>)>>),
      WdReply("Statements", TRUE, <<Statement("value", <<"+1940-01-01T00:00:00Z">>)>>),
      WdReply("Statements", TRUE, <<Statement("somevalue", <<>>)>>),
      WdReply("Statements", TRUE, <<Statement("value", <<"+1940-01-01T00:00:00Z">>),
                                    Statement("value", <<"+1941-01-01T00:00:00Z">>)>>) }

ExtReplies ==
    {[kind |-> k, ext_url |-> <<>>] : k \in {"URLError", "HTTPError", "InvalidJSON", "NoEntries"}}
    \cup
    { [kind |-> "Entry", ext_url |-> <<"https", ":", "//", "d-nb.info", "/gnd/1">>],
      [kind |-> "Entry", ext_url |-> <<"not-a-url">>] }

NoReply == [kind |-> "none", ext_url |-> <<>>]

\* No mismatches.csv of an earlier run exists: acc starts empty.
InitMnm ==
    /\ script = "run.py"
    /\ pc = "loop"
    /\ call = [df |-> DataFrame(<<>>)]
    /\ ret = None
    /\ total \in 0..MaxRecords
    /\ idx = 0 /\ mismatches = <<>> /\ bound = FALSE
    /\ row = <<>> /\ fetch = NoRequest /\ pub_date = NoneList
    /\ raised = NotRaised /\ csv = NoFile /\ sent = <<>> /\ fs = NoFiles /\ printed = <<>>

\* One pass of the loop body for the next entry.
MnmLoop ==
    /\ script = "run.py"
    /\ pc = "loop" /\ idx < total
    /\ \E wd \in WdReplies, ext \in ExtReplies :
          LET entry == MnmEntry(idx + 1)
              out == MnmPass(entry, wd, ext)
          IN  /\ row' = entry
              /\ fetch' = [wd |-> wd, ext |-> IF out.second THEN ext ELSE NoReply]
              /\ IF out.raised # "none"
                 THEN /\ raised' = [exc |-> out.raised, at |-> "loop"]
                      /\ pc' = "aborted"
                      /\ UNCHANGED <<idx, mismatches>>
                 ELSE /\ idx' = idx + 1
                      /\ mismatches' = AppendRows(mismatches, out.rows)
                      /\ UNCHANGED <<raised, pc>>
    /\ UNCHANGED <<script, call, ret, total, bound, pub_date, csv, sent, fs, printed>>

\* mismatchDF = pd.DataFrame(acc); mismatchDF.to_csv("mismatches.csv").
MnmToCsv ==
    /\ script = "run.py"
    /\ pc = "loop" /\ idx = total
    /\ call' = [df |-> DataFrame(mismatches)]
    /\ csv' = [written |-> TRUE, df |-> DataFrame(mismatches)]
    /\ pc' = "check"
    /\ UNCHANGED <<script, ret, total, idx, mismatches, bound, row, fetch, pub_date,
                   raised, sent, fs, printed>>

\* check_mf_formatting(mismatchDF).
MnmCheck ==
    /\ script = "run.py"
    /\ pc = "check"
    /\ ret' = check_mf_formatting(call.df)
    /\ IF ret'.raised # "none"
       THEN /\ raised' = [exc |-> ret'.raised, at |-> "check_mf_formatting"]
            /\ pc' = "aborted"
       ELSE /\ pc' = "done"
            /\ UNCHANGED raised
    /\ UNCHANGED <<script, call, total, idx, mismatches, bound, row, fetch, pub_date,
                   csv, sent, fs, printed>>

(***************************************************************************)
(* run.py started again when an earlier run has left mismatches.csv.  The  *)
(* file is written by line 97 only, after the loop has gone through every  *)
(* entry, so it holds the rows of a whole run over the entries.            *)
(***************************************************************************)
\* The rows a pass of the loop can add for the i-th entry when it does not
\* end the run.
PassRows(i) ==
    {MnmPass(MnmEntry(i), wd, ext).rows :
        wd \in {w \in WdReplies : w.kind \in {"HTTPError", "Statements"}},
        ext \in {e \in ExtReplies : e.kind \in {"NoEntries", "Entry"}}}

\* The lists acc a run that reaches line 97 can hold after n entries.
RECURSIVE SavedBatches(_)
SavedBatches(n) ==
    IF n = 0
    THEN {<<>>}
    ELSE {AppendRows(acc, rows) : acc \in SavedBatches(n - 1), rows \in PassRows(n)}

\* A cell written by to_csv and read by read_csv: an empty string comes back
\* as NaN.
ReadCsvCell(cell) ==
    IF cell.null THEN NaN ELSE IF cell.chars = <<>> THEN NaN ELSE cell

\* pd.read_csv('mismatches.csv').to_dict(orient="records"); a file written
\* from a frame of no row has no column and read_csv raises, so acc = [].
ReadCsvRecords(file) ==
    [i \in 1..Len(file.df.rows) |->
        [item_id |-> ReadCsvCell(file.df.rows[i].item_id),
         statement_guid |-> ReadCsvCell(file.df.rows[i].statement_guid),
         property_id |-> ReadCsvCell(file.df.rows[i].property_id),
         wikidata_value |-> ReadCsvCell(file.df.rows[i].wikidata_value),
         meta_wikidata_value |-> ReadCsvCell(file.df.rows[i].meta_wikidata_value),
         external_value |-> ReadCsvCell(file.df.rows[i].external_value),
         external_url |-> ReadCsvCell(file.df.rows[i].external_url),
         type |-> ReadCsvCell(file.df.rows[i].type)]]

\* The entries that mnm_mismatch_data_expanded[len(acc):] leaves out.
Offset(acc, n) == IF Len(acc) < n THEN Len(acc) ELSE n

\* acc is read from the file of the earlier run and the loop starts at the
\* entry of index len(acc).
InitResume ==
    /\ script = "run.py"
    /\ pc = "loop"
    /\ call = [df |-> DataFrame(<<>>)]
    /\ ret = None
    /\ total \in 0..MaxRecords
    /\ csv \in {[written |-> TRUE, df |-> DataFrame(acc)] : acc \in SavedBatches(total)}
    /\ mismatches = ReadCsvRecords(csv)
    /\ idx = Offset(mismatches, total)
    /\ bound = FALSE
    /\ row = <<>> /\ fetch = NoRequest /\ pub_date = NoneList
    /\ raised = NotRaised /\ sent = <<>> /\ fs = NoFiles /\ printed = <<>>

NextResume == MnmLoop \/ MnmToCsv \/ MnmCheck
SpecResume == InitResume /\ [][NextResume]_vars

(***************************************************************************)
(* upload_mismatches.py.  Its arguments are [access_token,                 *)
(* external_source, mismatch_file, mismatch_files_dir]: the first two tell *)
(* whether the option was passed.  A path is given or not; the file is     *)
(* [given, isfile, csv, size, df]: it exists, its name ends in ".csv", its *)
(* size in bytes, the frame it holds.  The directory is                    *)
(* [given, isdir, files], files being os.listdir in the order the system   *)
(* returns it; a file of the directory is [name, csv, size, df], name a    *)
(* number that stands for its place in the order of the paths.             *)
(***************************************************************************)
MiB == 2 ^ 20

FileSizes == {0, 10 * MiB - 1, 10 * MiB, 11 * MiB}

DirFileSizes == {10 * MiB - 1, 11 * MiB - 1, 11 * MiB}

GoodFrame == [columns |-> required_columns, rows |-> <<GoodRow>>]

BadFrame ==
    [columns |-> required_columns, rows |-> <<[GoodRow EXCEPT !.item_id = Str(<<"X", "1">>)]>>]

File(given, isfile, is_csv, size, df) ==
    [given |-> given, isfile |-> isfile, csv |-> is_csv, size |-> size, df |-> df]

\* No path, a path to nothing, a file that is not a CSV, and CSV files.
MismatchFiles ==
    { File(FALSE, FALSE, FALSE, 0, GoodFrame),
      File(TRUE, FALSE, TRUE, 0, GoodFrame),
      File(TRUE, TRUE, FALSE, 0, GoodFrame) }
    \cup {File(TRUE, TRUE, TRUE, size, df) : size \in FileSizes, df \in {GoodFrame, BadFrame}}

DirFiles ==
    [name : 1..MaxFiles, csv : {TRUE}, size : DirFileSizes, df : {GoodFrame}]
    \cup {[name |-> MaxFiles + 1, csv |-> FALSE, size |-> 0, df |-> GoodFrame]}

\* A listing has no name twice.
Listings ==
    {l \in SeqsUpTo(DirFiles, MaxFiles) :
        \A i, j \in 1..Len(l) : i # j => l[i].name # l[j].name}

MismatchDirs ==
    { [given |-> FALSE, isdir |-> FALSE, files |-> <<>>],
      [given |-> TRUE, isdir |-> FALSE, files |-> <<>>] }
    \cup {[given |-> TRUE, isdir |-> TRUE, files |-> l] : l \in Listings}

\* os.path.getsize(path) >> 20
SizeMiB(f) == f.size \div MiB

\* The single-file size assertion: mf_size < 10.
FileSizeAccepted(f) == SizeMiB(f) < 10

\* The directory size test: a file is too large when mfd_mf_size > 10.
DirFileTooLarge(f) == SizeMiB(f) > 10

\* assert MISMATCH_FILE or MISMATCH_FILES_DIR and not (MISMATCH_FILE and
\* MISMATCH_FILES_DIR): `and` binds tighter than `or`.
EitherOrAssertion(mismatch_file, mismatch_files_dir) ==
    mismatch_file.given
        \/ (mismatch_files_dir.given /\ ~(mismatch_file.given /\ mismatch_files_dir.given))

\* The assertions about MISMATCH_FILE.
FileAssertions(f) == f.isfile /\ f.csv /\ FileSizeAccepted(f)

\* The assertions about MISMATCH_FILES_DIR.
DirAssertions(d) ==
    /\ d.isdir
    /\ \A i \in 1..Len(d.files) : d.files[i].csv
    /\ \A i \in 1..Len(d.files) : ~DirFileTooLarge(d.files[i])

\* The section "Assertions for passed arguments" as a whole.
Assertions(args) ==
    /\ args.access_token
    /\ EitherOrAssertion(args.mismatch_file, args.mismatch_files_dir)
    /\ args.external_source
    /\ (args.mismatch_file.given => FileAssertions(args.mismatch_file))
    /\ (args.mismatch_files_dir.given => DirAssertions(args.mismatch_files_dir))

\* The files the section "Make upload request(s)" posts, in order: the file
\* if MISMATCH_FILE is given, else the files of the directory sorted by path.
FilesToUpload(args) ==
    IF args.mismatch_file.given
    THEN <<args.mismatch_file>>
    ELSE IF args.mismatch_files_dir.given
    THEN SortSeq(args.mismatch_files_dir.files, LAMBDA x, y : x.name < y.name)
    ELSE <<>>

InitUpload ==
    /\ script = "upload_mismatches.py"
    /\ pc = "assert"
    /\ call \in [verbose : BOOLEAN, access_token : BOOLEAN, external_source : BOOLEAN,
                 mismatch_file : MismatchFiles, mismatch_files_dir : MismatchDirs]
    /\ ret = None
    /\ NoRun

UploadAssert ==
    /\ script = "upload_mismatches.py"
    /\ pc = "assert"
    /\ IF Assertions(call)
       THEN /\ pc' = "post"
            /\ total' = Len(FilesToUpload(call))
            /\ UNCHANGED raised
       ELSE /\ pc' = "aborted"
            /\ raised' = [exc |-> "AssertionError", at |-> "assert"]
            /\ UNCHANGED total
    /\ UNCHANGED <<script, call, ret, idx, mismatches, bound, row, fetch, pub_date,
                   csv, sent, fs, printed>>

\* A line printed about the i-th file posted; i is 0 for a line about the
\* whole run.
Message(text, i) == [text |-> text, index |-> i]

UploadedMessage(i) == Message("was successfully uploaded", i)
ErrorMessage(i) == Message("There was an error in trying to upload", i)
AllUploadedMessage == Message("All mismatch files were successfully uploaded", 0)

\* What the upload of the i-th file prints.  For a single file the success
\* is always printed; in the loop over the directory it is printed when
\* VERBOSE is off (the progress bar shows it otherwise).
PrintedAfterPost(args, lines, reply, i) ==
    IF reply = "HTTPError"
    THEN Append(lines, ErrorMessage(i))
    ELSE IF args.mismatch_file.given
    THEN Append(lines, UploadedMessage(i))
    ELSE IF ~args.verbose
    THEN Append(lines, UploadedMessage(i))
    ELSE lines

\* requests.post of the next file and raise_for_status: an HTTPError is
\* caught and printed, an exception of the connection leaves the script.
UploadPost ==
    /\ script = "upload_mismatches.py"
    /\ pc = "post" /\ idx < total
    /\ \E reply \in {"ok", "HTTPError", "ConnectionError"} :
          /\ fetch' = [kind |-> reply, status |-> 0, entries |-> <<>>]
          /\ IF reply = "ConnectionError"
             THEN /\ pc' = "aborted"
                  /\ raised' = [exc |-> "ConnectionError", at |-> "post"]
                  /\ UNCHANGED <<sent, idx, printed>>
             ELSE /\ sent' = Append(sent, FilesToUpload(call)[idx + 1])
                  /\ printed' = PrintedAfterPost(call, printed, reply, idx + 1)
                  /\ idx' = idx + 1
                  /\ UNCHANGED <<raised, pc>>
    /\ UNCHANGED <<script, call, ret, total, mismatches, bound, row, pub_date, csv, fs>>

\* The end of the script, reached when every file has been posted.  After
\* the loop over the directory the script prints that all files were
\* uploaded.
UploadEnd ==
    /\ script = "upload_mismatches.py"
    /\ pc = "post" /\ idx = total
    /\ pc' = "done"
    /\ printed' = IF call.mismatch_file.given
                  THEN printed
                  ELSE Append(printed, AllUploadedMessage)
    /\ UNCHANGED <<script, call, ret, total, idx, mismatches, bound, row, fetch, pub_date,
                   raised, csv, sent, fs>>

(***************************************************************************)
(* split_mismatch_file.py.  Its arguments are [mismatch_file,              *)
(* mismatch_files_dir, delete_mismatch_file].  The mismatch file is        *)
(* [given, isfile, csv, columns, header, nrows, row_bytes]: a header line  *)
(* of header bytes that names the columns, and nrows rows of row_bytes     *)
(* bytes each.  The file system is [original, dir, outputs]: the mismatch  *)
(* file exists, the output directory is "absent", "empty" or "nonempty",   *)
(* and the files written, each [columns, first, last, size] for the header *)
(* and the rows first..last of the original.                               *)
(***************************************************************************)
SplitFile(given, isfile, is_csv, nrows) ==
    [given |-> given, isfile |-> isfile, csv |-> is_csv, columns |-> required_columns,
     header |-> 100, nrows |-> nrows, row_bytes |-> 1024]

\* Files of 1 KiB rows: just above 10 MiB, 11 MiB, 20 MiB, 20.9 MiB, 30.5 MiB.
SplitFiles ==
    { SplitFile(FALSE, FALSE, FALSE, 0),
      SplitFile(TRUE, FALSE, TRUE, 0),
      SplitFile(TRUE, TRUE, FALSE, 0) }
    \cup {SplitFile(TRUE, TRUE, TRUE, n) : n \in {10240, 11264, 20480, 21400, 31232}}

\* os.path.getsize(MISMATCH_FILE)
Getsize(f) == f.header + f.nrows * f.row_bytes

\* The assertions of the section "Assertions for passed arguments".
SplitAssertions(f) ==
    f.given /\ f.isfile /\ f.csv /\ (Getsize(f) \div MiB) > 10

\* int(mf_size / 10) + (mf_size % 10 > 0)
number_of_split_mismatch_files(mf_size) ==
    (mf_size \div 10) + (IF mf_size % 10 > 0 THEN 1 ELSE 0)

\* The columns of pd.read_csv for a header line: a name that the line has
\* already had k times gets the suffix ".k".
ReadCsvColumns(header) ==
    [i \in 1..Len(header) |->
        LET k == Cardinality({j \in 1..(i - 1) : header[j] = header[i]})
        IN  IF k = 0 THEN header[i] ELSE header[i] \o "." \o ToString(k)]

\* A split into sections of n \div k rows each, without the rows that remain.
array_split_floor(n, k) ==
    [i \in 1..k |-> [first |-> (i - 1) * (n \div k) + 1, last |-> i * (n \div k)]]

\* np.array_split(df, k) for a frame of n rows: the first n % k sections
\* have n \div k + 1 rows, the others n \div k.
array_split(n, k) ==
    [i \in 1..k |->
        LET before == (i - 1) * (n \div k) + (IF i - 1 < n % k THEN i - 1 ELSE n % k)
            rows == (n \div k) + (IF i <= n % k THEN 1 ELSE 0)
        IN  [first |-> before + 1, last |-> before + rows]]

\* df.to_csv of a section: the header line and the rows of the section.
SavedFile(f, section) ==
    [columns |-> ReadCsvColumns(f.columns), first |-> section.first, last |-> section.last,
     size |-> f.header + (section.last - section.first + 1) * f.row_bytes]

InitSplit ==
    /\ script = "split_mismatch_file.py"
    /\ pc = "assert"
    /\ call \in [mismatch_file : SplitFiles,
                 mismatch_files_dir : BOOLEAN,
                 delete_mismatch_file : BOOLEAN]
    /\ ret = None
    /\ total = 0 /\ idx = 0 /\ mismatches = <<>> /\ bound = FALSE
    /\ row = <<>> /\ fetch = NoRequest /\ pub_date = NoneList
    /\ raised = NotRaised /\ csv = NoFile /\ sent = <<>> /\ printed = <<>>
    /\ fs \in [original : {call.mismatch_file.isfile},
               dir : {"absent", "empty", "nonempty"},
               outputs : {<<>>}]

SplitAssert ==
    /\ script = "split_mismatch_file.py"
    /\ pc = "assert"
    /\ IF SplitAssertions(call.mismatch_file)
       THEN pc' = "makedirs" /\ UNCHANGED raised
       ELSE pc' = "aborted" /\ raised' = [exc |-> "AssertionError", at |-> "assert"]
    /\ UNCHANGED <<script, call, ret, total, idx, mismatches, bound, row, fetch, pub_date,
                   csv, sent, fs, printed>>

\* The section "Create the needed directory for the output CSVs".  Without
\* --mismatch-files-dir the directory named after the file must not exist;
\* a directory passed must not exist or be empty.
SplitMakeDirs ==
    /\ script = "split_mismatch_file.py"
    /\ pc = "makedirs"
    /\ IF (IF call.mismatch_files_dir THEN fs.dir = "nonempty" ELSE fs.dir # "absent")
       THEN /\ pc' = "aborted"
            /\ raised' = [exc |-> "AssertionError", at |-> "makedirs"]
            /\ UNCHANGED fs
       ELSE /\ pc' = "split"
            /\ fs' = [fs EXCEPT !.dir = "empty"]
            /\ UNCHANGED raised
    /\ UNCHANGED <<script, call, ret, total, idx, mismatches, bound, row, fetch, pub_date,
                   csv, sent, printed>>

\* The sections "Calculate how many CSVs should be made" and "Split and save
\* the resulting CSVs".  DELETE_MISMATCH_FILE is not read by any statement.
SplitAndSave ==
    /\ script = "split_mismatch_file.py"
    /\ pc = "split"
    /\ LET f == call.mismatch_file
           n == number_of_split_mismatch_files(Getsize(f) \div MiB)
           mismatch_file_dfs == array_split(f.nrows, n)
       IN  /\ total' = n
           /\ fs' = [fs EXCEPT !.dir = "nonempty",
                               !.outputs = [i \in 1..n |-> SavedFile(f, mismatch_file_dfs[i])]]
    /\ pc' = "done"
    /\ UNCHANGED <<script, call, ret, idx, mismatches, bound, row, fetch, pub_date,
                   raised, csv, sent, printed>>

(***************************************************************************)
(* The scripts.                                                            *)
(***************************************************************************)
InitScripts == InitOL \/ InitMnm \/ InitUpload \/ InitSplit
NextScripts ==
    \/ FindMismatches \/ CheckBatch \/ ToCsv
    \/ MnmLoop \/ MnmToCsv \/ MnmCheck
    \/ UploadAssert \/ UploadPost \/ UploadEnd
    \/ SplitAssert \/ SplitMakeDirs \/ SplitAndSave
SpecScripts == InitScripts /\ [][NextScripts]_vars

(***************************************************************************)
(* parse_dump_to_ndjson and _process_json_entry of utils.py.  An entry of  *)
(* the dump is [json, claims]: json is false for a line that json.loads    *)
(* rejects, claims maps the property ids the entry has to the list of      *)
(* their claims.  A claim is [datavalue, type, id]: datavalue is false for *)
(* a snak without value, id is the id of the entity or the string itself.  *)
(* pids and pid_values are lists or None; a limit of 0 stands for None.    *)
(* ret is the output file, total is entities_returned, idx the number of   *)
(* entries read (lines_read is idx + 1, the first line being skipped).     *)
(***************************************************************************)
MaxEntries == 2

Claim(type, id) == [datavalue |-> TRUE, type |-> type, id |-> id]
NoValueClaim == [datavalue |-> FALSE, type |-> "", id |-> ""]

Result(exc, value) == [raised |-> exc, value |-> value]

\* _get_claims_embedded_value: claims_index["mainsnak"]["datavalue"] raises
\* KeyError for a snak without value; the value of an entity is a dictionary
\* and that of a string the string.
_get_claims_embedded_value(claims_index, data_type) ==
    IF ~claims_index.datavalue
    THEN Result("KeyError", "")
    ELSE IF data_type = "wikibase-entityid"
    THEN IF claims_index.type = "wikibase-entityid"
         THEN Result("none", claims_index.id)
         ELSE Result("TypeError", "")
    ELSE IF claims_index.type = "wikibase-entityid"
    THEN Result("none", "{'id': '" \o claims_index.id \o "'}")
    ELSE Result("none", claims_index.id)

\* The body of `for i, pid in enumerate(pids)` for the index i: it ends with
\* `return True`, so the loop never reaches a second index.
ValuesLoop(prop_claims, pids, pid_values, i) ==
    IF i > Len(pids)
    THEN FALSE
    ELSE LET claims == prop_claims[pids[i]]
         IN  IF ~claims[1].datavalue
             THEN FALSE
             ELSE LET data_type == claims[1].type
                      all_prop_values ==
                          [k \in 1..Len(claims) |->
                              _get_claims_embedded_value(claims[k], data_type)]
                  IN  IF \E k \in 1..Len(claims) : all_prop_values[k].raised # "none"
                      THEN FALSE
                      ELSE IF i > Len(pid_values)
                      THEN FALSE
                      ELSE IF ~\E k \in 1..Len(claims) :
                                  all_prop_values[k].value = pid_values[i]
                      THEN FALSE
                      ELSE TRUE

\* _process_json_entry: every exception (KeyError of a missing property or
\* value, AssertionError of a value that is not found) gives False; the end
\* of the function reached without return gives None, which is falsy.
_process_json_entry(entry, pids, pid_values) ==
    IF pids.none
    THEN TRUE
    ELSE IF \E i \in 1..Len(pids.items) : pids.items[i] \notin DOMAIN entry.claims
    THEN FALSE
    ELSE IF pid_values.none
    THEN TRUE
    ELSE ValuesLoop(entry.claims, pids.items, pid_values.items, 1)

DumpEntry(claims) == [json |-> TRUE, claims |-> claims]
BadLine == [json |-> FALSE, claims |-> <<>>]

Q5 == Claim("wikibase-entityid", "Q5")
Q571 == Claim("wikibase-entityid", "Q571")

DumpEntries ==
    { DumpEntry(<<>>),
      DumpEntry([p \in {"P31"} |-> <<Q5>>]),
      DumpEntry([p \in {"P31", "P50"} |-> IF p = "P31" THEN <<Q5>> ELSE <<Q571>>]),
      DumpEntry([p \in {"P31", "P50"} |-> IF p = "P31" THEN <<Q571, Q5>> ELSE <<Q5>>]),
      DumpEntry([p \in {"P31"} |-> <<NoValueClaim>>]),
      DumpEntry([p \in {"P31"} |-> <<Q5, NoValueClaim>>]),
      BadLine }

PidLists == {NoneList, List(<<"P31">>), List(<<"P31", "P50">>), List(<<"P50", "P31">>)}

PidValueLists ==
    {NoneList, List(<<"Q5">>), List(<<"Q5", "Q5">>), List(<<"Q5", "Q571">>),
     List(<<"Q571", "Q5">>)}

InitDump ==
    /\ script = "parse_dump_to_ndjson"
    /\ pc = "open"
    /\ call \in [pids : PidLists, pid_values : PidValueLists,
                 dump : SeqsUpTo(DumpEntries, MaxEntries),
                 output_limit : {0, 1}, input_limit : {0, 2}]
    /\ ret = <<>>
    /\ NoRun

\* The statements before the loop and its first pass: the assertion on the
\* lengths (len(None) raises TypeError), the output file opened for writing,
\* the first line of the dump skipped.
DumpOpen ==
    /\ script = "parse_dump_to_ndjson"
    /\ pc = "open"
    /\ IF ~call.pid_values.none /\ call.pids.none
       THEN /\ pc' = "aborted"
            /\ raised' = [exc |-> "TypeError", at |-> "assert"]
       ELSE IF ~call.pid_values.none /\ Len(call.pids.items) # Len(call.pid_values.items)
       THEN /\ pc' = "aborted"
            /\ raised' = [exc |-> "AssertionError", at |-> "assert"]
       ELSE /\ pc' = "loop"
            /\ UNCHANGED raised
    /\ UNCHANGED <<script, call, ret, total, idx, mismatches, bound, row, fetch, pub_date,
                   csv, sent, fs, printed>>

\* What the pass for the entry of a line leaves: the output, the counter of
\* entities and whether the loop breaks.
PassOfLine(args, line, out, entities_returned, lines_read) ==
    IF ~line.json
    THEN [out |-> out, entities_returned |-> entities_returned,
          break |-> lines_read + 1 = args.input_limit]
    ELSE IF _process_json_entry(line, args.pids, args.pid_values)
    THEN [out |-> Append(out, line), entities_returned |-> entities_returned + 1,
          break |-> IF entities_returned + 1 = args.output_limit
                    THEN TRUE
                    ELSE lines_read + 1 = args.input_limit]
    ELSE [out |-> out, entities_returned |-> entities_returned,
          break |-> lines_read + 1 = args.input_limit]

\* One pass of `for line in f_in` after the first.
DumpLine ==
    /\ script = "parse_dump_to_ndjson"
    /\ pc = "loop" /\ idx < Len(call.dump)
    /\ LET after == PassOfLine(call, call.dump[idx + 1], ret, total, idx + 1)
       IN  /\ ret' = after.out
           /\ total' = after.entities_returned
           /\ idx' = idx + 1
           /\ pc' = IF after.break THEN "done" ELSE "loop"
    /\ UNCHANGED <<script, call, mismatches, bound, row, fetch, pub_date, raised,
                   csv, sent, fs, printed>>

\* The end of the dump.
DumpEnd ==
    /\ script = "parse_dump_to_ndjson"
    /\ pc = "loop" /\ idx = Len(call.dump)
    /\ pc' = "done"
    /\ UNCHANGED <<script, call, ret, runVars>>

NextDump == DumpOpen \/ DumpLine \/ DumpEnd
SpecDump == InitDump /\ [][NextDump]_vars

(***************************************************************************)
(* One CSV file given to the three tools that look at its size:            *)
(* upload_mismatches.py --mismatch-file, split_mismatch_file.py and        *)
(* check_mismatch_file.py.  ret is [upload, split, check], what each tool  *)
(* has said about the size, "pending" before it has run.                   *)
(***************************************************************************)
MaxMiB == 12

\* Files of 1 KiB rows from no row up to MaxMiB MiB and more, around every
\* whole number of MiB.
SizedFiles ==
    {SplitFile(TRUE, TRUE, TRUE, mib * 1024 + rows) :
        mib \in 0..MaxMiB, rows \in {0, 1, 512, 1023}}

\* The same file as upload_mismatches.py sees it.
UploadView(f) == File(f.given, f.isfile, f.csv, Getsize(f), GoodFrame)

\* check_mismatch_file.py: `if not mf_size < 10` prints the warning that the
\* file has to be split.
SizeWarning(f) == ~(Getsize(f) \div MiB < 10)

InitSizes ==
    /\ script = "size checks"
    /\ pc = "call"
    /\ call \in [mismatch_file : SizedFiles]
    /\ ret = [upload |-> "pending", split |-> "pending", check |-> "pending"]
    /\ NoRun

SizeUpload ==
    /\ script = "size checks" /\ ret.upload = "pending"
    /\ ret' = [ret EXCEPT !.upload = IF FileAssertions(UploadView(call.mismatch_file))
                                     THEN "accepted" ELSE "AssertionError"]
    /\ UNCHANGED <<script, pc, call, runVars>>

SizeSplit ==
    /\ script = "size checks" /\ ret.split = "pending"
    /\ ret' = [ret EXCEPT !.split = IF SplitAssertions(call.mismatch_file)
                                    THEN "accepted" ELSE "AssertionError"]
    /\ UNCHANGED <<script, pc, call, runVars>>

SizeCheck ==
    /\ script = "size checks" /\ ret.check = "pending"
    /\ ret' = [ret EXCEPT !.check = IF SizeWarning(call.mismatch_file)
                                    THEN "warning" ELSE "accepted"]
    /\ UNCHANGED <<script, pc, call, runVars>>

NextSizes == SizeUpload \/ SizeSplit \/ SizeCheck
SpecSizes == InitSizes /\ [][NextSizes]_vars

(***************************************************************************)
(* Properties of the validator.  The seven rules, as the specification of  *)
(* the schema states them; a rule about a column that the frame does not   *)
(* have is not violated.                                                   *)
(***************************************************************************)
CheckDone == script = "check_mf_formatting" /\ pc = "done"

IsId(letter, cell) ==
    /\ ~cell.null
    /\ Len(cell.chars) >= 2
    /\ cell.chars[1] = letter
    /\ \A i \in 2..Len(cell.chars) : cell.chars[i] \in Digits

\* An absolute URL: scheme, ":", "//", host, with a scheme and a host.
IsAbsoluteUrl(cell) ==
    /\ Len(cell.chars) >= 4
    /\ cell.chars[1] # "" /\ cell.chars[2] = ":"
    /\ cell.chars[3] = "//" /\ cell.chars[4] # ""

CellLength(cell) == Len(cell.chars) + cell.pad

SomeRow(df, c, Bad(_)) ==
    HasColumn(df, c) /\ \E i \in 1..Len(df.rows) : Bad(df.rows[i][c])

RuleViolated(k, df) ==
    CASE k = 1 -> df.columns # required_columns
      [] k = 2 -> \/ SomeRow(df, "item_id", LAMBDA x : ~IsId("Q", x))
                  \/ SomeRow(df, "property_id", LAMBDA x : ~IsId("P", x))
      [] k = 3 -> \E c \in {"item_id", "property_id", "external_value"} :
                      SomeRow(df, c, LAMBDA x : x.null)
      [] k = 4 -> /\ HasColumn(df, "statement_guid") /\ HasColumn(df, "wikidata_value")
                  /\ \E i \in 1..Len(df.rows) :
                        ~df.rows[i]["wikidata_value"].null /\ df.rows[i]["statement_guid"].null
      [] k = 5 -> SomeRow(df, "external_url", LAMBDA x : ~x.null /\ ~IsAbsoluteUrl(x))
      [] k = 6 -> SomeRow(df, "type",
                          LAMBDA x : ~x.null /\ x.chars \notin {<<"statement">>, <<"qualifier">>})
      [] k = 7 -> \E c \in {"wikidata_value", "external_value", "external_url"} :
                      SomeRow(df, c, LAMBDA x : ~x.null /\ CellLength(x) > MaxValueLength)

ViolatedRules(df) == {k \in 1..7 : RuleViolated(k, df)}

\* No column that checks 6 and 7 read is entirely NaN (dtype float64).
NoFloatColumn(df) ==
    \A c \in {"wikidata_value", "external_value", "external_url", "type"} :
        ~(HasColumn(df, c) /\ IsFloatColumn(df, c))

\* C1: the validator lists every violated check: when k of the seven checks
\* are violated it raises one ValueError with exactly k numbered entries, one
\* per violated check, in check order; with none violated it raises nothing.
\* (Stated for the frames whose columns each hold a string.)
C1_EveryViolationListed ==
    (CheckDone /\ NoFloatColumn(call.df)) =>
        LET violated == ViolatedRules(call.df)
            listed == ret.correction_instruction
        IN  IF violated = {}
            THEN ret.raised = "none"
            ELSE /\ ret.raised = "ValueError"
                 /\ Len(listed) = Cardinality(violated)
                 /\ \A i \in 1..Len(listed) : listed[i].check \in violated
                 /\ \A i, j \in 1..Len(listed) : i < j => listed[i].check < listed[j].check

\* The rows whose external_url the ValueError lists.
ListedUrlRows ==
    UNION {{m.rows[j] : j \in 1..Len(m.rows)} :
             m \in {ret.correction_instruction[i] : i \in 1..Len(ret.correction_instruction)}}

\* C2: a non-null external_url is reported unless it is an absolute URL with
\* a scheme and a host; a null external_url is never reported.
C2_UrlsReported ==
    (CheckDone /\ ret.raised # "AttributeError" /\ HasColumn(call.df, "external_url")) =>
        \A i \in 1..Len(call.df.rows) :
            LET url == call.df.rows[i]["external_url"]
            IN  (i \in ListedUrlRows) <=> (~url.null /\ ~IsAbsoluteUrl(url))

(***************************************************************************)
(* Properties of the date functions.                                       *)
(***************************************************************************)
D(y, m, d) == [year |-> y, month |-> m, day |-> d]

IsJanuaryFirst(dt) == dt.month = 1 /\ dt.day = 1

CompareDone == script = "compare_values" /\ pc = "done"

\* C3: compare_values returns True exactly when the two instants are equal,
\* or they share the year, the candidate is January 1 and the known value is
\* not January 1; the four pairs of the test table come out as stated.
C3_CompareExactly ==
    CompareDone =>
        /\ ret = ( \/ call.wd_date = call.ol_date
                   \/ /\ call.wd_date.year = call.ol_date.year
                      /\ IsJanuaryFirst(call.ol_date)
                      /\ ~IsJanuaryFirst(call.wd_date) )
        /\ (call.wd_date = D(2022, 4, 15) /\ call.ol_date = D(2022, 4, 15) => ret = TRUE)
        /\ (call.wd_date = D(2022, 4, 15) /\ call.ol_date = D(2022, 1, 1) => ret = TRUE)
        /\ (call.wd_date = D(2022, 1, 1) /\ call.ol_date = D(2022, 4, 15) => ret = FALSE)
        /\ (call.wd_date = D(2022, 4, 15) /\ call.ol_date = D(2023, 4, 15) => ret = FALSE)

\* A known April 15 compared with a January 1 candidate of the same year.
C3_Witness ==
    /\ CompareDone
    /\ call.wd_date = D(2022, 4, 15) /\ call.ol_date = D(2022, 1, 1)
    /\ ret = TRUE

\* How much of the date a format specifies.
FormatPrecision(fmt) ==
    IF \E i \in 1..Len(fmt) : fmt[i] = "%d" THEN "day"
    ELSE IF \E i \in 1..Len(fmt) : fmt[i] \in {"%m", "%B", "%b"} THEN "month"
    ELSE "year"

ParsedBy(date_str) == {i \in 1..Len(formats) : Strptime(date_str, formats[i]) # None}

FirstParsing(date_str) == CHOOSE i \in ParsedBy(date_str) : \A j \in ParsedBy(date_str) : i <= j

\* The precision of a recognized string: that of the formats that parse it.
Precision(date_str) == FormatPrecision(formats[FirstParsing(date_str)])

\* C4: when the known value and the candidate both have day precision and
\* differ in month or day, compare_values returns False (Mismatch), also for
\* a day-precision January 1 candidate.
C4_DayPrecisionIsMismatch ==
    ( /\ CompareDone
      /\ Precision(call.ol_src) = "day"
      /\ (call.wd_date.month # call.ol_date.month \/ call.wd_date.day # call.ol_date.day) )
    => ret = FALSE

NonNull(edition_pub_dates) ==
    IF edition_pub_dates.none
    THEN {}
    ELSE {edition_pub_dates.items[i] : i \in 1..Len(edition_pub_dates.items)} \ {None}

InFindMismatches == script = "OL-Publication-Date-Mismatch-Generation" /\ pc = "find_mismatches"

InLoop == InFindMismatches \/ (script = "run.py" /\ pc = "loop")

\* C7: a pass of find_mismatches whose request is answered with HTTP 403
\* leaves the loop at the same record (to fetch the same identifier again
\* after the cool-down): the record is not skipped, no later record starts.
C7_RateLimitRetriesSameRecord ==
    [][ (InFindMismatches /\ idx < total /\ fetch' = RateLimited)
            => (InFindMismatches' /\ idx' = idx) ]_vars

\* C8: a pass of find_mismatches or of the loop of run.py never ends the
\* run, whatever fails for its record: the loop goes on to the next record.
C8_RecordFailureNeverAborts ==
    [][ (InLoop /\ idx < total) => (InLoop' /\ idx' = idx + 1) ]_vars

\* C9: a CSV file is written only when the script has come to its end with
\* the validator passing the frame written, every file posted passes the
\* validator, and when the validator has raised no file is written and no
\* request sent.
C9_ValidatedBeforeOutput ==
    /\ csv.written => (pc = "done" /\ check_mf_formatting(csv.df).raised = "none")
    /\ \A i \in 1..Len(sent) : check_mf_formatting(sent[i].df).raised = "none"
    /\ raised.at = "check_mf_formatting" => (~csv.written /\ sent = <<>>)

EditionsDone ==
    /\ script = "get_editions_publication_dates" /\ pc = "done"
    /\ call.response.kind = "Entries"

\* C10 as stated: the list returned has one element per edition record, in
\* response order, the date of a record that has a publish_date and null for
\* a record that has none.
C10_OneElementPerEdition ==
    (EditionsDone /\ ~ret.value.none) =>
        LET entries == call.response.entries
            items == ret.value.items
        IN  /\ Len(items) = Len(entries)
            /\ \A i \in 1..Len(entries) :
                  items[i] = IF entries[i].has_date
                             THEN convert_to_iso_8601(entries[i].publish_date)
                             ELSE None

HasPublishDate(edition) == edition.has_date

\* C10: the list returned has one element per edition record that has a
\* publish_date, in response order: its date converted to ISO 8601, null
\* when no format parses it.  A record without publish_date contributes
\* nothing; None is returned instead of an empty list, and when an entry is
\* not an object.
C10_OneElementPerDatedEdition ==
    EditionsDone =>
        LET entries == call.response.entries
            dated == SelectSeq(entries, HasPublishDate)
        IN  /\ ret.raised = "none"
            /\ IF (\E i \in 1..Len(entries) : ~entries[i].dict) \/ dated = <<>>
               THEN ret.value = NoneList
               ELSE /\ ~ret.value.none
                    /\ Len(ret.value.items) = Len(dated)
                    /\ \A j \in 1..Len(dated) :
                          ret.value.items[j] = convert_to_iso_8601(dated[j].publish_date)

\* A response with a record without publish_date before a dated one: the
\* list returned is shorter than the response.
C10_Witness ==
    /\ EditionsDone
    /\ Len(call.response.entries) = 2
    /\ ~call.response.entries[1].has_date /\ call.response.entries[1].dict
    /\ ~ret.value.none
    /\ Len(ret.value.items) = 1

ConvertDone == script = "convert_to_iso_8601" /\ pc = "done"

\* C11: the result of convert_to_iso_8601 tells how much of the string
\* specified the date: a bare year gives January 1, a month and year give
\* day 1 (the time of day of an ISO string of the model is always zero), and
\* the precision can be read off the result, so two strings that get the same
\* result have the same precision.
C11_PrecisionReflectsInput ==
    (ConvertDone /\ ret # None) =>
        /\ (Precision(call.date_str) = "year" => ret[2] = 1 /\ ret[3] = 1)
        /\ (Precision(call.date_str) = "month" => ret[3] = 1)
        /\ \A other \in RecognizedStrings :
              convert_to_iso_8601(other) = ret => Precision(other) = Precision(call.date_str)

\* The ValueError of the validator lists check k.
Reported(k) ==
    /\ ret.raised = "ValueError"
    /\ \E i \in 1..Len(ret.correction_instruction) : ret.correction_instruction[i].check = k

\* The ValueError of the validator names column c under check k.
ReportedColumn(k, c) ==
    /\ ret.raised = "ValueError"
    /\ \E i \in 1..Len(ret.correction_instruction) :
          /\ ret.correction_instruction[i].check = k
          /\ \E j \in 1..Len(ret.correction_instruction[i].cols) :
                ret.correction_instruction[i].cols[j] = c

\* C12: the validator reports the statement_guid violation exactly when some
\* row has a non-null wikidata_value together with a null statement_guid.
C12_GuidViolationReported ==
    (CheckDone /\ HasColumn(call.df, "statement_guid") /\ HasColumn(call.df, "wikidata_value")) =>
        (Reported(4) <=>
            \E i \in 1..Len(call.df.rows) :
                /\ ~call.df.rows[i]["wikidata_value"].null
                /\ call.df.rows[i]["statement_guid"].null)

\* C13: a frame that has the eight columns in order and whose rows satisfy
\* the rules 2 to 7 is accepted: the validator raises nothing.
C13_WellFormedAccepted ==
    (CheckDone /\ ViolatedRules(call.df) = {}) => ret.raised = "none"

\* C15: item_id is reported as invalid exactly when some row has an item_id
\* that is not Q followed by digits, and property_id exactly when some row
\* has a property_id that is not P followed by digits.
C15_InvalidIdsReported ==
    CheckDone =>
        /\ HasColumn(call.df, "item_id") =>
              (ReportedColumn(2, "item_id") <=>
                  \E i \in 1..Len(call.df.rows) : ~IsId("Q", call.df.rows[i]["item_id"]))
        /\ HasColumn(call.df, "property_id") =>
              (ReportedColumn(2, "property_id") <=>
                  \E i \in 1..Len(call.df.rows) : ~IsId("P", call.df.rows[i]["property_id"]))


InUpload == script = "upload_mismatches.py"

\* C16: every file posted to the import API has a size of at most 10 MB,
\* whether it was passed as the file or found in the directory.
C16_SentFilesWithinLimit ==
    InUpload => \A i \in 1..Len(sent) : sent[i].size <= 10 * MiB

\* C19: the script gets past its assertions only when exactly one of
\* --mismatch-file and --mismatch-files-dir is given.
C19_ExactlyOnePathGiven ==
    (InUpload /\ pc \in {"post", "done"}) =>
        (call.mismatch_file.given # call.mismatch_files_dir.given)


(***************************************************************************)
(* Properties of split_mismatch_file.py.                                   *)
(***************************************************************************)
SplitDone == script = "split_mismatch_file.py" /\ pc = "done"

Ceiling(a, b) == (a + b - 1) \div b

\* C17: the script writes ceil(size / 10 MB) files and every file written
\* is 10 MB or less.
C17_OutputsWithinLimit ==
    SplitDone =>
        /\ Len(fs.outputs) = Ceiling(Getsize(call.mismatch_file), 10 * MiB)
        /\ \A i \in 1..Len(fs.outputs) : fs.outputs[i].size <= 10 * MiB

\* C18: after a split with --delete-mismatch-file the original file no
\* longer exists; without the flag it is still there.
C18_DeleteFlagHonoured ==
    SplitDone => (fs.original <=> ~call.delete_mismatch_file)


(***************************************************************************)
(* Properties of the batch of the generators.                              *)
(***************************************************************************)
InGenerator == script \in {"OL-Publication-Date-Mismatch-Generation", "run.py"}

\* The record a row was built for.
RecordOf(r) == CHOOSE k \in 1..MaxRecords : r.item_id = Str(<<"Q", ToString(k)>>)

InMnmLoop == script = "run.py" /\ pc = "loop"

\* C21: a row that run.py appends has a null statement_guid exactly when the
\* property is not among the statements of the item (the row comes from
\* blank_entry), and then its wikidata_value is null too; so no row of the
\* batch has a wikidata_value without a statement_guid (rule 4).
C21_GuidNullOnlyForAbsentProperty ==
    [][ (InMnmLoop /\ pc' = "loop") =>
          /\ \A i \in (Len(mismatches) + 1)..Len(mismatches') :
                /\ mismatches'[i].statement_guid.null <=> ~fetch'.wd.has_pid
                /\ mismatches'[i].statement_guid.null => mismatches'[i].wikidata_value.null
          /\ ~RuleViolated(4, DataFrame(mismatches')) ]_vars

\* A batch with a row of an absent property and a row of a statement.
C21_Witness ==
    /\ script = "run.py"
    /\ \E i, j \in 1..Len(mismatches) :
          /\ mismatches[i].statement_guid.null /\ mismatches[i].wikidata_value.null
          /\ ~mismatches[j].statement_guid.null /\ ~mismatches[j].wikidata_value.null

(***************************************************************************)
(* Properties of find_mismatches about the dates of the external source.   *)
(***************************************************************************)
\* The editions of a response whose publish_date is a recognized string.
DatedEditions(response) ==
    {i \in 1..Len(response.entries) :
        /\ response.entries[i].dict /\ response.entries[i].has_date
        /\ ParsedBy(response.entries[i].publish_date) # {}}

ValidDates(response) ==
    {convert_to_iso_8601(response.entries[i].publish_date) : i \in DatedEditions(response)}

\* The fetch returned nothing, or no edition has a date that is recognized.
NoValidDate(response) ==
    \/ response.kind \in {"ConnectionError", "HTTPError", "InvalidJSON"}
    \/ response.kind = "Entries" /\ DatedEditions(response) = {}

EarliestValid(response) ==
    CHOOSE d \in ValidDates(response) : \A e \in ValidDates(response) : ~IsoLess(e, d)

\* Editions that are all objects, one of them with a recognized date.
SomeValidDate(response) ==
    /\ response.kind = "Entries"
    /\ \A i \in 1..Len(response.entries) : response.entries[i].dict
    /\ DatedEditions(response) # {}

\* C22: a pass of find_mismatches whose fetch yields no valid date appends no
\* row and goes on to the next record; a pass whose fetch yields a valid
\* date next to unparseable ones compares the earliest valid date, and the
\* row it appends on a mismatch carries that date.
C22_NoDateNoRowEarliestValidUsed ==
    [][ (InFindMismatches /\ idx < total /\ fetch' # NoRequest) =>
          /\ NoValidDate(fetch') =>
                (InFindMismatches' /\ idx' = idx + 1 /\ mismatches' = mismatches)
          /\ SomeValidDate(fetch') =>
                LET earliest == iso_8601_to_datetime(EarliestValid(fetch'))
                    wd == iso_8601_to_datetime(row'.publicationDate.date)
                IN  /\ InFindMismatches' /\ idx' = idx + 1
                    /\ mismatches' = IF compare_values(wd, earliest) = FALSE
                                     THEN Append(mismatches, MismatchRow(row', earliest))
                                     ELSE mismatches ]_vars

\* The pass of a work whose first edition has an unparseable date has added
\* a row with the date of the second edition.
C22_Witness ==
    /\ InFindMismatches
    /\ fetch = Entries(<<Circa2022, Year2023>>)
    /\ Len(mismatches) > 0
    /\ mismatches[Len(mismatches)].item_id = Str(row.item)
    /\ mismatches[Len(mismatches)].external_value =
           Str(datetime_to_str(iso_8601_to_datetime(<<2023, 1, 1>>)))

(***************************************************************************)
(* Properties of the upload of a directory.                                *)
(***************************************************************************)
InDirectoryMode ==
    /\ script = "upload_mismatches.py"
    /\ ~call.mismatch_file.given /\ call.mismatch_files_dir.given

HasLine(lines, line) == \E i \in 1..Len(lines) : lines[i] = line

\* C23: in directory mode the files are posted in sorted path order and all
\* of them are posted when the script ends, an HTTP error of one upload lets
\* the loop go on to the next file, and the line "All mismatch files were
\* successfully uploaded" is printed only when no upload of the run failed.
C23_AllUploadedOnlyAfterSuccess ==
    [][ InDirectoryMode =>
          /\ \A i, j \in 1..Len(sent') : i < j => sent'[i].name < sent'[j].name
          /\ pc' = "done" => Len(sent') = Len(call.mismatch_files_dir.files)
          /\ (pc = "post" /\ idx < total /\ fetch'.kind = "HTTPError")
                => (pc' = "post" /\ idx' = idx + 1)
          /\ HasLine(printed', AllUploadedMessage)
                => \A i \in 1..Len(sent') : ~HasLine(printed', ErrorMessage(i)) ]_vars

(***************************************************************************)
(* Properties of parse_dump_to_ndjson.                                     *)
(***************************************************************************)
InDump == script = "parse_dump_to_ndjson"

\* The values an entry has for a property.
ValuesOf(entry, pid) ==
    {entry.claims[pid][k].id :
        k \in {k \in 1..Len(entry.claims[pid]) : entry.claims[pid][k].datavalue}}

\* C24: with pids and pid_values given, every entry in the output has every
\* listed property and, for every index i, has pid_values[i] among its values
\* for pids[i].
C24_OutputMatchesEveryPidValue ==
    (InDump /\ ~call.pids.none /\ ~call.pid_values.none) =>
        \A n \in 1..Len(ret) :
            \A i \in 1..Len(call.pids.items) :
                /\ call.pids.items[i] \in DOMAIN ret[n].claims
                /\ call.pid_values.items[i] \in ValuesOf(ret[n], call.pids.items[i])

\* The number of rows of an output file.
RowsOf(output) == output.last - output.first + 1

BothDone == script = "check_mf_formatting copies" /\ pc = "done"

\* C26: on every frame the copy of check_mf_formatting in utils.py and the
\* copy in check_mismatch_file.py either both pass or both raise, and when
\* they raise they list the same corrections in the same order.
C26_CopiesEquivalent ==
    BothDone => ret.utils = ret.check_mismatch_file

\* Both copies have listed several corrections.
C26_Witness ==
    /\ BothDone
    /\ ret.utils.raised = "ValueError"
    /\ Len(ret.check_mismatch_file.correction_instruction) >= 2

(***************************************************************************)
(* Properties of the rows as discrepancies.                                *)
(***************************************************************************)
\* C27: find_mismatches appends at most one row in a pass, only when
\* compare_values has returned False for the dates of the record, and no two
\* rows of its batch are for the same record; run.py appends a row only for
\* a Wikidata value that differs from mnm_time, so in no row of its batch
\* wikidata_value equals external_value.
C27_RowsAreDiscrepancies ==
    [][ /\ InFindMismatches =>
              /\ Len(mismatches') <= Len(mismatches) + 1
              /\ Len(mismatches') = Len(mismatches) + 1 =>
                    compare_values(
                        iso_8601_to_datetime(row'.publicationDate.date),
                        iso_8601_to_datetime(find_earliest_date(pub_date'))) = FALSE
              /\ \A i, j \in 1..Len(mismatches') :
                    i # j => mismatches'[i].item_id # mismatches'[j].item_id
        /\ InMnmLoop =>
              /\ \A i \in (Len(mismatches) + 1)..Len(mismatches') :
                    IF fetch'.wd.has_pid
                    THEN \E k \in 1..Len(fetch'.wd.values) :
                            /\ mismatches'[i].wikidata_value = fetch'.wd.values[k].time
                            /\ fetch'.wd.values[k].time # Str(row'.mnm_time)
                    ELSE mismatches'[i].wikidata_value.null
              /\ \A i \in 1..Len(mismatches') :
                    mismatches'[i].wikidata_value # mismatches'[i].external_value ]_vars

\* run.py has added a row for one entry and none for a later entry whose
\* Wikidata value equals mnm_time.
C27_Witness ==
    /\ InMnmLoop
    /\ Len(mismatches) >= 1
    /\ fetch.wd.kind = "Statements" /\ fetch.ext.kind = "Entry"
    /\ \E k \in 1..Len(fetch.wd.values) : fetch.wd.values[k].time = Str(row.mnm_time)
    /\ \A i \in 1..Len(mismatches) : mismatches[i].item_id # Str(row.item_id)

(***************************************************************************)
(* Properties of a run of run.py that starts from a saved mismatches.csv.  *)
(***************************************************************************)
\* C28: the earlier run has processed every entry, so the run that starts
\* from its file skips every entry, whatever the number of rows each entry
\* has produced: no pass of the loop is left to do, and no row is in the
\* batch twice.
C28_ResumeSkipsProcessedEntries ==
    (script = "run.py" /\ csv.written) =>
        /\ pc = "loop" => idx = total
        /\ \A i, j \in 1..Len(mismatches) : i # j => mismatches[i] # mismatches[j]

(***************************************************************************)
(* Termination of find_mismatches.  The loop is a sequential program: as   *)
(* long as a pass or the next cell can run, it runs.                       *)
(***************************************************************************)
NextOL == FindMismatches \/ CheckBatch \/ ToCsv
SpecOL == InitOL /\ [][NextOL]_vars /\ WF_vars(NextOL)

\* find_mismatches has returned to the script: the cell that checks the batch
\* has run.
FindMismatchesReturned ==
    /\ script = "OL-Publication-Date-Mismatch-Generation"
    /\ idx = total
    /\ IF pc = "aborted" THEN raised.at = "check_mf_formatting" ELSE pc \in {"to_csv", "done"}

\* The loop of find_mismatches is left in every run, by its end or by an
\* exception.
FindMismatchesExits == <>(~InFindMismatches)

\* C29: find_mismatches comes to its end having visited every record: every
\* pass ends its record or is followed by another pass for it, a record
\* once ended is not visited again, and the call returns with all the
\* records visited.
C29_TerminatesAfterEveryRecord ==
    /\ [][ InFindMismatches => idx' \in {idx, idx + 1} ]_vars
    /\ <>FindMismatchesReturned

(***************************************************************************)
(* Properties of the size checks.                                          *)
(***************************************************************************)
\* C30: a CSV file that upload_mismatches.py refuses as too large, and that
\* check_mismatch_file.py says must be split, passes the assertions of
\* split_mismatch_file.py: no size is refused by both tools.
C30_NoSizeRefusedByBoth ==
    (script = "size checks" /\ ret.upload = "AssertionError" /\ ret.split # "pending") =>
        ret.split = "accepted"

====
